---- MODULE Spec2Model ----
(***************************************************************************)
(* Recitation validation and similarity scoring of the Quran recitation    *)
(* app: QuranDatabase.validateRecitation with its private                   *)
(* calculateSimilarity / removeDiacritics (src/src/services/QuranDatabase.ts)*)
(* and the exported removeDiacritics / calculateSimilarity /                *)
(* levenshteinDistance helpers (src/src/utils/constants.ts).                *)
(*                                                                         *)
(* A JavaScript string is a sequence of UTF-16 code units (naturals).       *)
(* A JavaScript number that the code obtains by a division is kept as the   *)
(* exact fraction <<numerator, denominator>> with denominator > 0; the      *)
(* literals of the code are the fractions One (1.0), NineTenths (0.9),      *)
(* Zero (0.0), Threshold70 (0.7), Threshold30 (0.3) and Accuracy70 (70).    *)
(***************************************************************************)
EXTENDS Integers, Sequences, FiniteSets, TLC

VARIABLES
  surahs,          \* QuranDatabaseClass.surahs : Map<number, SurahInfo>
  verses,          \* QuranDatabaseClass.verses : Map<string, VerseInfo>
  isInitialized,   \* QuranDatabaseClass.isInitialized
  op,              \* which entry point the caller is about to invoke
  surahNumber,     \* argument of validateRecitation
  verseNumber,     \* argument of validateRecitation
  recitedText,     \* argument of validateRecitation
  result,          \* <<>> before the call, <<ValidationResult>> after it
  word1,           \* first argument of calculateSimilarity
  word2,           \* second argument of calculateSimilarity
  similarity,      \* <<>> / <<value>> returned by QuranDatabase's calculateSimilarity
  utilSimilarity,  \* <<>> / <<value>> returned by the exported calculateSimilarity
  normalized,      \* <<>> / <<value>> returned by removeDiacritics(word1)
  renormalized,    \* <<>> / <<value>> returned by removeDiacritics of that value
  navigated,       \* <<>> before getNextVerse / getPreviousVerse is called,
                   \* <<what it returned>> after: << >> (null) or << reference >>
  now,             \* the clock: Date.now(), in ms
  currentSession,  \* BikeModeProvider's currentSession: <<>> (null) / <<session>>
  sessionHistory,  \* BikeModeProvider's sessionHistory
  storage,         \* AsyncStorage's item 'bike_mode_sessions': <<>> (none) / <<text>>
  written,         \* history variable: the array whose text the storage holds
  pendingLoad,     \* <<>> / <<what the getItem of a loadSessionHistory under way read>>
  calls,           \* number of calls of the context's functions so far
  mounts,          \* number of times the provider was mounted again
  recitationStatus,   \* BikeModeScreen's recitationStatus
  currentSurah,       \* BikeModeScreen's currentSurah
  currentAyah,        \* BikeModeScreen's currentAyah
  progress,           \* BikeModeScreen's progress, a fraction
  sessionStats,       \* BikeModeScreen's sessionStats
  sessionStartTime,   \* BikeModeScreen's ref sessionStartTime
  recordingInterval,  \* BikeModeScreen's ref recordingInterval: <<>> (null) /
                      \* <<the timer it refers to>>, a timer being the
                      \* currentSurah and currentAyah its callback closes over
  leaked,             \* the running timers that recordingInterval no longer
                      \* refers to, oldest first
  isRecording,        \* AudioService's isRecording
  starting,           \* the calls of startRecording waiting for
                      \* AudioService.startRecording(): what each closes over
  stopping,           \* number of calls of stopRecording waiting for Voice.stop()
  selectedPeriod,     \* ProgressScreen's selectedPeriod
  stats,              \* <<>> / <<what getStats() returned in this render>>
  achievements,       \* <<>> / <<what getAchievements() returned in this render>>
  settings,           \* BikeModeProvider's settings
  localSettings,      \* SettingsScreen's localSettings
  settingsStorage     \* AsyncStorage's item 'bike_mode_settings': <<>> / <<text>>

\* the variables of the calls of removeDiacritics
normVars ==
  << normalized, renormalized >>

\* the variables of the QuranDatabase singleton
dbVars ==
  << surahs, verses, isInitialized >>

\* the variable of the calls of getNextVerse and getPreviousVerse
navVars ==
  << navigated >>

\* the variables of the calls of the library functions
callVars ==
  << op, surahNumber, verseNumber, recitedText, result, word1, word2,
     similarity, utilSimilarity, normVars, navVars >>

\* the variables of BikeModeProvider, its storage and its clock
sessionVars ==
  << now, currentSession, sessionHistory, storage, written, pendingLoad,
     calls, mounts >>

\* the variables of BikeModeScreen
screenVars ==
  << recitationStatus, currentSurah, currentAyah, progress, sessionStats,
     sessionStartTime, recordingInterval, leaked, isRecording, starting,
     stopping >>

\* the variables of ProgressScreen
statsVars ==
  << selectedPeriod, stats, achievements >>

\* the variables of the settings
settingsVars ==
  << settings, localSettings, settingsStorage >>

\* the variables of the app around the library
appVars ==
  << sessionVars, screenVars, statsVars, settingsVars >>

vars ==
  << dbVars, callVars, appVars >>

----------------------------------------------------------------------------
(* Bounds of the checked input space.                                      *)

\* longest argument string of calculateSimilarity that is enumerated
MaxLen ==
  3

\* most positions of a recitation whose word differs from the canonical word
MaxDeviations ==
  2

\* most surplus words recited after the last canonical word
MaxExtra ==
  2

\* longest argument string of removeDiacritics that is enumerated
MaxNormLen ==
  4

\* number of ms the clock advances in a run
MaxClock ==
  2

\* number of calls of the context's functions in a run
MaxCalls ==
  4

\* number of times the provider is mounted again in a run
MaxMounts ==
  1

\* number of events of each kind that the audio processing reports in a run
MaxEvents ==
  2

\* number of calls of startRecording, and of stopRecording, that wait for the
\* audio service at the same time
MaxPending ==
  2

\* number of running timers that the screen has lost the reference to
MaxLeaked ==
  1

\* number of verses at the start of a chapter that are navigated from
NavVerses ==
  4

\* the sessions shown by ProgressScreen lie on the days 0 .. StatsDays
StatsDays ==
  8

----------------------------------------------------------------------------
(* Numbers.                                                                *)

Max(a, b) ==
  IF a >= b THEN a ELSE b

Min(a, b) ==
  IF a <= b THEN a ELSE b

Min3(a, b, c) ==
  Min(a, Min(b, c))

\* the fraction n / d
Frac(n, d) ==
  << n, d >>

FracEq(x, y) ==
  x[1] * y[2] = y[1] * x[2]

FracLt(x, y) ==
  x[1] * y[2] < y[1] * x[2]

FracLe(x, y) ==
  x[1] * y[2] <= y[1] * x[2]

One ==
  Frac(1, 1)

NineTenths ==
  Frac(9, 10)

Zero ==
  Frac(0, 1)

Threshold70 ==
  Frac(7, 10)

Threshold30 ==
  Frac(3, 10)

Accuracy70 ==
  Frac(70, 1)

Accuracy100 ==
  Frac(100, 1)

----------------------------------------------------------------------------
(* Strings.                                                                *)

\* the diacritics array of removeDiacritics, in the order of the source:
\* fatha damma kasra fathatan dammatan kasratan sukun shadda superscript-alef
\* U+0656 U+0657 U+0659 .. U+065F
Diacritics ==
  << 1614, 1615, 1616, 1611, 1612, 1613, 1618, 1617, 1648,
     1622, 1623, 1625, 1626, 1627, 1628, 1629, 1630, 1631 >>

DiacriticSet ==
  { Diacritics[i] : i \in 1..Len(Diacritics) }

RECURSIVE ReplaceFirst(_, _)
\* the replace without the g flag: only the first occurrence is removed
ReplaceFirst(text, diacritic) ==
  IF text = << >> THEN << >>
  ELSE IF Head(text) = diacritic THEN Tail(text)
  ELSE << Head(text) >> \o ReplaceFirst(Tail(text), diacritic)

\* result.replace(new RegExp(diacritic, 'g'), '')
ReplaceAll(text, diacritic) ==
  SelectSeq(text, LAMBDA c : c # diacritic)

RECURSIVE RemoveFrom(_, _)
\* the forEach over the diacritics array, from index i on
RemoveFrom(text, i) ==
  IF i > Len(Diacritics) THEN text
  ELSE RemoveFrom(ReplaceAll(text, Diacritics[i]), i + 1)

\* removeDiacritics of QuranDatabase.ts
removeDiacritics(text) ==
  RemoveFrom(text, 1)

\* removeDiacritics of constants.ts: the same array and the same loop
utilRemoveDiacritics(text) ==
  RemoveFrom(text, 1)

\* String.prototype.toLowerCase on one code unit; of the code units the
\* model enumerates only the Latin capitals A..Z have a lower-case form
LowerUnit(c) ==
  IF c \in 65..90 THEN c + 32 ELSE c

toLowerCase(text) ==
  [ i \in 1..Len(text) |-> LowerUnit(text[i]) ]

----------------------------------------------------------------------------
(* calculateSimilarity of QuranDatabase.ts (private, used by the validator) *)

RECURSIVE CountMatches(_, _, _, _)
\* the for loop over i < minLen (i is 1-based here), accumulating matches
CountMatches(clean1, clean2, i, minLen) ==
  IF i > minLen THEN 0
  ELSE (IF clean1[i] = clean2[i] THEN 1 ELSE 0)
       + CountMatches(clean1, clean2, i + 1, minLen)

\* calculateSimilarity without its first line, the return on identical words
calculateSimilarityNoIdentity(w1, w2) ==
  LET clean1 == removeDiacritics(w1)
      clean2 == removeDiacritics(w2)
  IN  IF clean1 = clean2 THEN NineTenths
      ELSE
        LET maxLen == Max(Len(clean1), Len(clean2))
            minLen == Min(Len(clean1), Len(clean2))
        IN  IF maxLen = 0 THEN Zero
            ELSE Frac(CountMatches(clean1, clean2, 1, minLen), maxLen)

\* calculateSimilarity without the return of 0.9 on equal cleaned words
calculateSimilarityNoCleanCheck(w1, w2) ==
  IF w1 = w2 THEN One
  ELSE
    LET clean1 == removeDiacritics(w1)
        clean2 == removeDiacritics(w2)
        maxLen == Max(Len(clean1), Len(clean2))
        minLen == Min(Len(clean1), Len(clean2))
    IN  IF maxLen = 0 THEN Zero
        ELSE Frac(CountMatches(clean1, clean2, 1, minLen), maxLen)

\* calculateSimilarity dividing the matches by the shorter length
calculateSimilarityMinLen(w1, w2) ==
  IF w1 = w2 THEN One
  ELSE
    LET clean1 == removeDiacritics(w1)
        clean2 == removeDiacritics(w2)
    IN  IF clean1 = clean2 THEN NineTenths
        ELSE
          LET maxLen == Max(Len(clean1), Len(clean2))
              minLen == Min(Len(clean1), Len(clean2))
          IN  IF minLen = 0 THEN Zero
              ELSE Frac(CountMatches(clean1, clean2, 1, minLen), minLen)

calculateSimilarity(w1, w2) ==
  IF w1 = w2 THEN One
  ELSE
    LET clean1 == removeDiacritics(w1)
        clean2 == removeDiacritics(w2)
    IN  IF clean1 = clean2 THEN NineTenths
        ELSE
          LET maxLen == Max(Len(clean1), Len(clean2))
              minLen == Min(Len(clean1), Len(clean2))
          IN  IF maxLen = 0 THEN Zero
              ELSE Frac(CountMatches(clean1, clean2, 1, minLen), maxLen)

----------------------------------------------------------------------------
(* calculateSimilarity / levenshteinDistance of constants.ts (exported)     *)

\* matrix[0][i] = i for i in 0..str1.length; cell i is kept at index i + 1
FirstRow(str1) ==
  [ k \in 1..(Len(str1) + 1) |-> k - 1 ]

RECURSIVE FillRow(_, _, _, _, _)
\* the inner loop over i for row j: row holds matrix[j][0..i-1] so far
FillRow(str1, str2, j, prev, row) ==
  LET i == Len(row)
  IN  IF i > Len(str1) THEN row
      ELSE
        LET indicator == IF str1[i] = str2[j] THEN 0 ELSE 1
            cell == Min3(row[i] + 1,            \* matrix[j][i - 1] + 1
                         prev[i + 1] + 1,       \* matrix[j - 1][i] + 1
                         prev[i] + indicator)   \* matrix[j - 1][i - 1] + indicator
        IN  FillRow(str1, str2, j, prev, Append(row, cell))

RECURSIVE FillMatrix(_, _, _, _)
\* the outer loop over j; prev is row j - 1; matrix[j][0] = j
FillMatrix(str1, str2, j, prev) ==
  IF j > Len(str2) THEN prev
  ELSE FillMatrix(str1, str2, j + 1, FillRow(str1, str2, j, prev, << j >>))

levenshteinDistance(str1, str2) ==
  FillMatrix(str1, str2, 1, FirstRow(str1))[Len(str1) + 1]

\* the exported calculateSimilarity with the empty-length guard moved before
\* the comparison of the cleaned strings
utilCalculateSimilarityGuardFirst(str1, str2) ==
  IF str1 = str2 THEN One
  ELSE
    LET clean1 == toLowerCase(utilRemoveDiacritics(str1))
        clean2 == toLowerCase(utilRemoveDiacritics(str2))
        maxLen == Max(Len(clean1), Len(clean2))
    IN  IF maxLen = 0 THEN Zero
        ELSE IF clean1 = clean2 THEN NineTenths
        ELSE Frac(maxLen - levenshteinDistance(clean1, clean2), maxLen)

\* the exported calculateSimilarity dividing the distance by the length of
\* the first cleaned string; a division by 0 gives -Infinity
utilCalculateSimilarityFirstLen(str1, str2) ==
  IF str1 = str2 THEN One
  ELSE
    LET clean1 == toLowerCase(utilRemoveDiacritics(str1))
        clean2 == toLowerCase(utilRemoveDiacritics(str2))
    IN  IF clean1 = clean2 THEN NineTenths
        ELSE
          LET maxLen == Max(Len(clean1), Len(clean2))
              distance == levenshteinDistance(clean1, clean2)
          IN  IF maxLen = 0 THEN Zero
              ELSE IF Len(clean1) = 0 THEN Frac(0 - 1, 1)
              ELSE Frac(Len(clean1) - distance, Len(clean1))

utilCalculateSimilarity(str1, str2) ==
  IF str1 = str2 THEN One
  ELSE
    LET clean1 == toLowerCase(utilRemoveDiacritics(str1))
        clean2 == toLowerCase(utilRemoveDiacritics(str2))
    IN  IF clean1 = clean2 THEN NineTenths
        ELSE
          LET maxLen == Max(Len(clean1), Len(clean2))
          IN  IF maxLen = 0 THEN Zero
              ELSE
                LET distance == levenshteinDistance(clean1, clean2)
                IN  Frac(maxLen - distance, maxLen)   \* 1 - distance / maxLen

----------------------------------------------------------------------------
(* The corpus written by createDefaultData.                                *)

\* src/src/services/QuranDatabase.ts:122  words of verse '1:1', as UTF-16 code units
Words_1_1 ==
  << <<1576, 1616, 1587, 1618, 1605, 1616>>,
     <<1575, 1604, 1604, 1614, 1617, 1607, 1616>>,
     <<1575, 1604, 1585, 1614, 1617, 1581, 1618, 1605, 1614, 1648, 1606, 1616>>,
     <<1575, 1604, 1585, 1614, 1617, 1581, 1616, 1610, 1605, 1616>> >>

\* src/src/services/QuranDatabase.ts:129  words of verse '1:2', as UTF-16 code units
Words_1_2 ==
  << <<1575, 1604, 1618, 1581, 1614, 1605, 1618, 1583, 1615>>,
     <<1604, 1616, 1604, 1614, 1617, 1607, 1616>>,
     <<1585, 1614, 1576, 1616, 1617>>,
     <<1575, 1604, 1618, 1593, 1614, 1575, 1604, 1614, 1605, 1616, 1610, 1606, 1614>> >>

\* src/src/services/QuranDatabase.ts:136  words of verse '1:3', as UTF-16 code units
Words_1_3 ==
  << <<1575, 1604, 1585, 1614, 1617, 1581, 1618, 1605, 1614, 1648, 1606, 1616>>,
     <<1575, 1604, 1585, 1614, 1617, 1581, 1616, 1610, 1605, 1616>> >>

\* src/src/services/QuranDatabase.ts:143  words of verse '1:4', as UTF-16 code units
Words_1_4 ==
  << <<1605, 1614, 1575, 1604, 1616, 1603, 1616>>,
     <<1610, 1614, 1608, 1618, 1605, 1616>>,
     <<1575, 1604, 1583, 1616, 1617, 1610, 1606, 1616>> >>

\* src/src/services/QuranDatabase.ts:150  words of verse '1:5', as UTF-16 code units
Words_1_5 ==
  << <<1573, 1616, 1610, 1614, 1617, 1575, 1603, 1614>>,
     <<1606, 1614, 1593, 1618, 1576, 1615, 1583, 1615>>,
     <<1608, 1614, 1573, 1616, 1610, 1614, 1617, 1575, 1603, 1614>>,
     <<1606, 1614, 1587, 1618, 1578, 1614, 1593, 1616, 1610, 1606, 1615>> >>

\* src/src/services/QuranDatabase.ts:157  words of verse '1:6', as UTF-16 code units
Words_1_6 ==
  << <<1575, 1607, 1618, 1583, 1616, 1606, 1614, 1575>>,
     <<1575, 1604, 1589, 1616, 1617, 1585, 1614, 1575, 1591, 1614>>,
     <<1575, 1604, 1618, 1605, 1615, 1587, 1618, 1578, 1614, 1602, 1616, 1610, 1605, 1614>> >>

\* src/src/services/QuranDatabase.ts:164  words of verse '1:7', as UTF-16 code units
Words_1_7 ==
  << <<1589, 1616, 1585, 1614, 1575, 1591, 1614>>,
     <<1575, 1604, 1614, 1617, 1584, 1616, 1610, 1606, 1614>>,
     <<1571, 1614, 1606, 1618, 1593, 1614, 1605, 1618, 1578, 1614>>,
     <<1593, 1614, 1604, 1614, 1610, 1618, 1607, 1616, 1605, 1618>>,
     <<1594, 1614, 1610, 1618, 1585, 1616>>,
     <<1575, 1604, 1618, 1605, 1614, 1594, 1618, 1590, 1615, 1608, 1576, 1616>>,
     <<1593, 1614, 1604, 1614, 1610, 1618, 1607, 1616, 1605, 1618>>,
     <<1608, 1614, 1604, 1614, 1575>>,
     <<1575, 1604, 1590, 1614, 1617, 1575, 1604, 1616, 1617, 1610, 1606, 1614>> >>

\* the separator of the words in textArabic: one space
Space ==
  << 32 >>

RECURSIVE JoinFrom(_, _, _)
JoinFrom(words, i, sep) ==
  IF i > Len(words) THEN << >>
  ELSE IF i = Len(words) THEN words[i]
  ELSE words[i] \o sep \o JoinFrom(words, i + 1, sep)

\* a VerseInfo record; textArabic of every default verse is its words
\* joined by one space, and wordCount the number of its words
VerseInfo(words) ==
  [ textArabic |-> JoinFrom(words, 1, Space),
    words      |-> words,
    wordCount  |-> Len(words) ]

\* the keys of the verses Map: `${surahNumber}:${verseNumber}`
VerseKey(s, v) ==
  << s, v >>

\* defaultVerses of createDefaultData
defaultVerses ==
  ( VerseKey(1, 1) :> VerseInfo(Words_1_1) ) @@
  ( VerseKey(1, 2) :> VerseInfo(Words_1_2) ) @@
  ( VerseKey(1, 3) :> VerseInfo(Words_1_3) ) @@
  ( VerseKey(1, 4) :> VerseInfo(Words_1_4) ) @@
  ( VerseKey(1, 5) :> VerseInfo(Words_1_5) ) @@
  ( VerseKey(1, 6) :> VerseInfo(Words_1_6) ) @@
  ( VerseKey(1, 7) :> VerseInfo(Words_1_7) )

\* defaultSurahs of createDefaultData (the descriptive fields left out)
defaultSurahs ==
  ( 1  :> [ number |-> 1,  totalVerses |-> 7,   revelationOrder |-> 5  ] ) @@
  ( 2  :> [ number |-> 2,  totalVerses |-> 286, revelationOrder |-> 87 ] ) @@
  ( 36 :> [ number |-> 36, totalVerses |-> 83,  revelationOrder |-> 41 ] )

\* an empty Map
EmptyMap ==
  << >>

----------------------------------------------------------------------------
(* validateRecitation                                                      *)

\* the code units that the regular expression class \s matches
WhiteSpace ==
  { 9, 10, 11, 12, 13, 32, 160, 5760, 8232, 8233, 8239, 8287, 12288, 65279 }
    \cup (8192..8202)

RECURSIVE SkipWhiteSpace(_, _)
\* the index after the run of white space that starts at i (the match of \s+)
SkipWhiteSpace(text, i) ==
  IF i <= Len(text) /\ text[i] \in WhiteSpace
    THEN SkipWhiteSpace(text, i + 1)
    ELSE i

RECURSIVE SplitFrom(_, _, _)
\* text.split(/\s+/) from index i on, cur being the piece collected since the
\* last separator: every maximal run of white space separates two pieces,
\* the pieces before a leading run and after a trailing run being empty
SplitFrom(text, i, cur) ==
  IF i > Len(text) THEN << cur >>
  ELSE IF text[i] \in WhiteSpace
    THEN << cur >> \o SplitFrom(text, SkipWhiteSpace(text, i), << >>)
    ELSE SplitFrom(text, i + 1, Append(cur, text[i]))

Split(text) ==
  SplitFrom(text, 1, << >>)

\* the split without the filter of the empty pieces
RecitedWordsUnfiltered(text) ==
  Split(text)

\* recitedText.split(/\s+/).filter(word => word.length > 0)
RecitedWords(text) ==
  SelectSeq(Split(text), LAMBDA word : Len(word) > 0)

\* getVerse with a key made of the verse number alone
getVerseByVerseNumber(versesMap, s, v) ==
  IF \E k \in DOMAIN versesMap : k[2] = v
    THEN << versesMap[CHOOSE k \in DOMAIN versesMap : k[2] = v] >>
    ELSE << >>

\* getVerse: this.verses.get(key) || null, null being << >>
getVerse(versesMap, s, v) ==
  IF VerseKey(s, v) \in DOMAIN versesMap
    THEN << versesMap[VerseKey(s, v)] >>
    ELSE << >>

\* getSurahInfo: this.surahs.get(surahNumber) || null
getSurahInfo(surahsMap, s) ==
  IF s \in DOMAIN surahsMap THEN << surahsMap[s] >> ELSE << >>

\* the number of surahs that getNextVerse knows of
TotalSurahs ==
  114

\* getNextVerse(surahNumber, verseNumber)
getNextVerse(surahsMap, s, v) ==
  LET surahInfo == getSurahInfo(surahsMap, s)
  IN  IF surahInfo = << >> THEN << >>
      ELSE IF v < surahInfo[1].totalVerses THEN << [ surah |-> s, verse |-> v + 1 ] >>
      ELSE IF s + 1 <= TotalSurahs THEN << [ surah |-> s + 1, verse |-> 1 ] >>
      ELSE << >>

\* getPreviousVerse(surahNumber, verseNumber)
getPreviousVerse(surahsMap, s, v) ==
  IF v > 1 THEN << [ surah |-> s, verse |-> v - 1 ] >>
  ELSE IF s - 1 >= 1 /\ getSurahInfo(surahsMap, s - 1) # << >>
    THEN << [ surah |-> s - 1, verse |-> getSurahInfo(surahsMap, s - 1)[1].totalVerses ] >>
  ELSE << >>

\* an omission reported at the 1-based position
OmissionOneBased(expectedWord, index) ==
  [ type |-> "omission", expected |-> expectedWord,
    position |-> index + 1, severity |-> "high" ]

Omission(expectedWord, index) ==
  [ type |-> "omission", expected |-> expectedWord,
    position |-> index, severity |-> "high" ]

\* a pronunciation mistake whose severity does not follow the similarity
PronunciationMedium(expectedWord, recitedWord, index, sim) ==
  [ type |-> "pronunciation", expected |-> expectedWord, recited |-> recitedWord,
    position |-> index, severity |-> "medium" ]

Pronunciation(expectedWord, recitedWord, index, sim) ==
  [ type |-> "pronunciation", expected |-> expectedWord, recited |-> recitedWord,
    position |-> index,
    severity |-> IF FracLt(sim, Threshold30) THEN "high" ELSE "medium" ]

\* the addition reported at the last canonical position
AdditionAtLastWord(index) ==
  [ type |-> "addition", position |-> index - 1, severity |-> "medium" ]

Addition(index) ==
  [ type |-> "addition", position |-> index, severity |-> "medium" ]

RECURSIVE ForEachExpected(_, _, _, _)
\* expectedWords.forEach((expectedWord, index) => ...) from the 0-based index
\* on; acc holds the mistakes and missingWords arrays pushed to so far
ForEachExpected(expectedWords, recitedWords, index, acc) ==
  IF index >= Len(expectedWords) THEN acc
  ELSE
    LET expectedWord == expectedWords[index + 1]
    IN  IF index >= Len(recitedWords)
          THEN ForEachExpected(expectedWords, recitedWords, index + 1,
                 [ mistakes     |-> Append(acc.mistakes, Omission(expectedWord, index)),
                   missingWords |-> Append(acc.missingWords, expectedWord) ])
          ELSE
            LET recitedWord == recitedWords[index + 1]
                sim == calculateSimilarity(expectedWord, recitedWord)
            IN  IF FracLt(sim, Threshold70)
                  THEN ForEachExpected(expectedWords, recitedWords, index + 1,
                         [ acc EXCEPT !.mistakes =
                             Append(@, Pronunciation(expectedWord, recitedWord, index, sim)) ])
                  ELSE ForEachExpected(expectedWords, recitedWords, index + 1, acc)

\* a count of every mistake that is not an omission
NonOmissionCount(mistakes) ==
  Len(SelectSeq(mistakes, LAMBDA m : m.type # "omission"))

\* mistakes.filter(m => m.type === 'pronunciation').length
PronunciationCount(mistakes) ==
  Len(SelectSeq(mistakes, LAMBDA m : m.type = "pronunciation"))

\* the result returned for a verse that is not in the verses Map
AbsentResult ==
  [ isValid |-> FALSE, accuracy |-> Zero, mistakes |-> << >>,
    missingWords |-> << >>, extraWords |-> << >> ]

validateRecitation(versesMap, s, v, text) ==
  LET expectedVerse == getVerse(versesMap, s, v)
  IN  IF expectedVerse = << >> THEN AbsentResult
      ELSE
        LET expectedWords == expectedVerse[1].words
            recitedWords  == RecitedWords(text)
            checked == ForEachExpected(expectedWords, recitedWords, 0,
                         [ mistakes |-> << >>, missingWords |-> << >> ])
            surplus == Len(recitedWords) > Len(expectedWords)
            extraWords == IF surplus
                            THEN SubSeq(recitedWords, Len(expectedWords) + 1,
                                        Len(recitedWords))
                            ELSE << >>
            mistakes == IF surplus
                          THEN Append(checked.mistakes, Addition(Len(expectedWords)))
                          ELSE checked.mistakes
            correctWords == Len(expectedWords) - Len(checked.missingWords)
                              - PronunciationCount(mistakes)
            \* (correctWords / expectedWords.length) * 100
            accuracy == Frac(correctWords * 100, Len(expectedWords))
        \* accuracy >= 70; of an empty verse the accuracy is NaN, and NaN >= 70 is false
        IN  [ isValid      |-> Len(expectedWords) > 0 /\ FracLe(Accuracy70, accuracy),
              accuracy     |-> accuracy,
              mistakes     |-> mistakes,
              missingWords |-> checked.missingWords,
              extraWords   |-> extraWords ]

----------------------------------------------------------------------------
(* The inputs that are enumerated.                                         *)

\* the code units of the enumerated arguments of calculateSimilarity:
\* 'a', 'A', the letter beh and the diacritic kasra
SimAlphabet ==
  { 97, 65, 1576, 1616 }

RECURSIVE StringsOfLen(_)
StringsOfLen(n) ==
  IF n = 0 THEN { << >> }
  ELSE { Append(s, c) : s \in StringsOfLen(n - 1), c \in SimAlphabet }

SimStrings ==
  UNION { StringsOfLen(n) : n \in 0..MaxLen }

\* a recited word other than the canonical word w: w without its diacritics,
\* w with its last letter replaced, the first half of its letters, and an
\* unrelated word
Letters(w) ==
  SelectSeq(w, LAMBDA c : c \notin DiacriticSet)

Foreign ==
  << 120, 121 >>

Variants(w) ==
  LET l == Letters(w)
      n == Len(l)
  IN  { l,
        [ l EXCEPT ![n] = 120 ],
        SubSeq(l, 1, Max(1, n \div 2)),
        Foreign }

RECURSIVE Recitations(_, _, _)
\* the word sequences of length m that differ from the first m canonical
\* words at no more than d positions
Recitations(words, m, d) ==
  IF m = 0 THEN { << >> }
  ELSE { Append(p, words[m]) : p \in Recitations(words, m - 1, d) }
       \cup (IF d = 0 THEN { }
             ELSE { Append(p, w) : p \in Recitations(words, m - 1, d - 1),
                                   w \in Variants(words[m]) })

\* e surplus words: the reciter goes on with the verse's words from its start
Surplus(words, e) ==
  [ k \in 1..e |-> words[((k - 1) % Len(words)) + 1] ]

WordSeqs(words) ==
  UNION { Recitations(words, m, MaxDeviations) : m \in 0..Len(words) }
    \cup { p \o Surplus(words, e) :
             p \in Recitations(words, Len(words), MaxDeviations), e \in 1..MaxExtra }

\* a text of the words p: separated by one space, or led by a tab, separated
\* by a space and a line feed, and trailed by a space
Plain(p) ==
  JoinFrom(p, 1, Space)

Ragged(p) ==
  << 9 >> \o JoinFrom(p, 1, << 32, 10 >>) \o << 32 >>

Texts(words) ==
  { Plain(p) : p \in WordSeqs(words) } \cup { Ragged(p) : p \in WordSeqs(words) }

\* references that createDefaultData gives no verse: past the last verse of
\* chapter 1, a chapter with metadata only, a chapter unknown to the corpus
AbsentRefs ==
  { << 1, 8 >>, << 2, 1 >>, << 115, 1 >> }

References ==
  DOMAIN defaultVerses \cup AbsentRefs

\* the texts recited for a reference; for a reference without a verse an
\* attempt at verse 1:3
TextsFor(ref) ==
  IF ref \in DOMAIN defaultVerses
    THEN Texts(defaultVerses[ref].words)
    ELSE Texts(Words_1_3)

\* the chapters navigated from: those of createDefaultData, and chapters it
\* does not have
NavSurahs ==
  DOMAIN defaultSurahs \cup { 3, 114, 115 }

\* the verses navigated from in a chapter: its first NavVerses verses and,
\* if it is a chapter of createDefaultData, its last two
NavVersesOf(s) ==
  (1..NavVerses) \cup
    (IF s \in DOMAIN defaultSurahs
       THEN { defaultSurahs[s].totalVerses - 1, defaultSurahs[s].totalVerses }
       ELSE { })

\* the code units of the enumerated arguments of removeDiacritics: beh, 'a',
\* the first and the last diacritic of the array (fatha, U+065F) and the
\* mark U+0655, which the array does not list
NormAlphabet ==
  { 1576, 97, 1614, 1631, 1621 }

RECURSIVE NormStringsOfLen(_)
NormStringsOfLen(n) ==
  IF n = 0 THEN { << >> }
  ELSE { Append(s, c) : s \in NormStringsOfLen(n - 1), c \in NormAlphabet }

NormStrings ==
  UNION { NormStringsOfLen(n) : n \in 0..MaxNormLen }

----------------------------------------------------------------------------
(* BikeModeProvider: the session state of BikeModeContext.tsx.              *)
(*                                                                         *)
(* A Date is the record [time |-> ms]; the string that Date.toJSON gives is *)
(* the record [iso |-> <<days, hours, minutes, seconds, ms>>] (the calendar *)
(* date kept as the day number it stands for); other strings are sequences *)
(* of code units.  An optional property that is undefined is a field the    *)
(* record does not have; null is << >>; a value that may be null is kept as *)
(* << >> or << value >>.                                                    *)

\* new Date(ms)
Date(ms) ==
  [ time |-> ms ]

\* Date.getTime()
getTime(date) ==
  date.time

\* the ms of a day
MsPerDay ==
  86400000

\* Date.toJSON(), the ISO string of JSON.stringify: date and time of day to
\* the millisecond
toJSON(date) ==
  LET ms == getTime(date)
  IN  [ iso |-> << ms \div MsPerDay,
                   (ms % MsPerDay) \div 3600000,
                   (ms % 3600000) \div 60000,
                   (ms % 60000) \div 1000,
                   ms % 1000 >> ]

\* new Date(isoString)
DateFromString(string) ==
  LET f == string.iso
  IN  Date(f[1] * MsPerDay + f[2] * 3600000 + f[3] * 60000
             + f[4] * 1000 + f[5])

RECURSIVE Digits(_)
\* the decimal digits of a natural number, as code units
Digits(n) ==
  IF n < 10 THEN << 48 + n >>
  ELSE Append(Digits(n \div 10), 48 + (n % 10))

\* Date.now().toString()
toString(n) ==
  Digits(n)

\* the newSession object of startSession, idNow and startNow being the two
\* readings of the clock
NewSession(idNow, startNow) ==
  [ id               |-> toString(idNow),
    startTime        |-> Date(startNow),
    versesRecited    |-> 0,
    pausesDetected   |-> 0,
    mistakesDetected |-> 0,
    totalDuration    |-> 0,
    averageAccuracy  |-> 0,
    surahsCompleted  |-> << >> ]

\* { ...a, ...b }: the properties of b over those of a
Spread(a, b) ==
  [ k \in DOMAIN a \cup DOMAIN b |-> IF k \in DOMAIN b THEN b[k] ELSE a[k] ]

\* the endedSession object of endSession, endNow and durationNow being the
\* two readings of the clock (new Date(), then Date.now())
EndedSession(session, endNow, durationNow) ==
  Spread(session,
    [ endTime       |-> Date(endNow),
      totalDuration |-> IF "endTime" \in DOMAIN session
                          THEN getTime(session.endTime) - getTime(session.startTime)
                          ELSE durationNow - getTime(session.startTime) ])

\* the number of sessions that endSession keeps
HistoryCap ==
  50

\* array.slice(0, n)
Slice0(array, n) ==
  SubSeq(array, 1, Min(n, Len(array)))

\* the history rid of the sessions that have the id of the ended one
UpdatedHistoryOnePerId(endedSession, history) ==
  Slice0(<< endedSession >> \o SelectSeq(history, LAMBDA s : s.id # endedSession.id),
         HistoryCap)

\* the history without the slice
UpdatedHistoryUncapped(endedSession, history) ==
  << endedSession >> \o history

\* [endedSession, ...sessionHistory].slice(0, 50)
UpdatedHistory(endedSession, history) ==
  Slice0(<< endedSession >> \o history, HistoryCap)

\* JSON.stringify of one session followed by JSON.parse: the Dates have
\* become strings, an undefined endTime is left out
JSONSession(session) ==
  [ k \in DOMAIN session |->
      IF k \in { "startTime", "endTime" } THEN toJSON(session[k]) ELSE session[k] ]

\* JSON.parse(JSON.stringify(history))
JSONHistory(history) ==
  [ i \in 1..Len(history) |-> JSONSession(history[i]) ]

\* the map callback parsing the startTime only
WithDatesStartOnly(session) ==
  Spread(session, [ startTime |-> DateFromString(session.startTime) ])

\* the map callback of loadSessionHistory: startTime parsed, endTime parsed
\* when the stored session has one and undefined otherwise
WithDates(session) ==
  IF "endTime" \in DOMAIN session
    THEN Spread(session, [ startTime |-> DateFromString(session.startTime),
                           endTime   |-> DateFromString(session.endTime) ])
    ELSE Spread(session, [ startTime |-> DateFromString(session.startTime) ])

\* historyWithDates of loadSessionHistory
HistoryWithDates(parsedHistory) ==
  [ i \in 1..Len(parsedHistory) |-> WithDates(parsedHistory[i]) ]

\* JSON.stringify(history): the text, kept as the value it denotes
JSONstringify(history) ==
  [ json |-> JSONHistory(history) ]

\* JSON.parse(historyData)
JSONparse(text) ==
  text.json

----------------------------------------------------------------------------
(* What an earlier run of the app left in AsyncStorage.                     *)

\* the reading of the clock when the provider is first mounted: one day, one
\* hour, one minute, one second and 200 ms after the epoch
ClockStart ==
  90061200

\* the k-th most recent session of an earlier run, opened 2k ms and closed
\* 2k - 1 ms before this run
EarlierSession(k) ==
  EndedSession(Spread(NewSession(ClockStart - 2 * k, ClockStart - 2 * k),
                      [ versesRecited |-> 1 ]),
               ClockStart - 2 * k + 1, ClockStart - 2 * k + 1)

\* the history an earlier run saved after closing n sessions
EarlierHistory(n) ==
  [ k \in 1..n |-> EarlierSession(k) ]

\* the lengths of those histories: one short of the cap, and at the cap
EarlierLengths ==
  { HistoryCap - 1, HistoryCap }

----------------------------------------------------------------------------
(* ProgressScreen: the statistics of the session history.  A number that    *)
(* may be NaN is kept as a fraction, NaN being 0 / 0.  The local time zone  *)
(* is UTC.                                                                  *)

NaN ==
  Frac(0, 0)

IsNaN(x) ==
  x[2] = 0

\* Math.floor(x)
MathFloor(x) ==
  IF IsNaN(x) THEN NaN ELSE Frac(x[1] \div x[2], 1)

\* Math.round(x): the nearest integer, halves going up
MathRound(x) ==
  IF IsNaN(x) THEN NaN ELSE Frac((2 * x[1] + x[2]) \div (2 * x[2]), 1)

\* (now.getTime() - sessionDate.getTime()) / (1000 * 60 * 60 * 24) <= days,
\* decided on the days and the times of day of the two dates
daysDiffLe(nowMs, startMs, days) ==
  LET wholeDays == (nowMs \div MsPerDay) - (startMs \div MsPerDay)
      rest      == (nowMs % MsPerDay) - (startMs % MsPerDay)
  IN  wholeDays < days \/ (wholeDays = days /\ rest <= 0)

\* the days of the period 'week'
WeekDays ==
  7

\* the days of the period 'month'
MonthDays ==
  30

\* the callback of the filter of getFilteredSessions
InPeriod(session, period, nowMs) ==
  IF period = "all" THEN TRUE
  ELSE IF period = "week" THEN daysDiffLe(nowMs, getTime(session.startTime), WeekDays)
  ELSE IF period = "month" THEN daysDiffLe(nowMs, getTime(session.startTime), MonthDays)
  ELSE TRUE

RECURSIVE Filter(_, _, _)
Filter(sessions, period, nowMs) ==
  IF sessions = << >> THEN << >>
  ELSE (IF InPeriod(Head(sessions), period, nowMs) THEN << Head(sessions) >> ELSE << >>)
         \o Filter(Tail(sessions), period, nowMs)

\* getFilteredSessions()
getFilteredSessions(history, period, nowMs) ==
  Filter(history, period, nowMs)

RECURSIVE Sum(_, _)
\* sessions.reduce((sum, session) => sum + session[field], 0)
Sum(sessions, field) ==
  IF sessions = << >> THEN 0
  ELSE Sum(SubSeq(sessions, 1, Len(sessions) - 1), field) + sessions[Len(sessions)][field]

RECURSIVE InsertByStartTime(_, _)
\* session put into a list sorted by descending startTime, after the
\* sessions that do not start before it
InsertByStartTime(sorted, session) ==
  IF sorted = << >> THEN << session >>
  ELSE IF getTime(Head(sorted).startTime) >= getTime(session.startTime)
    THEN << Head(sorted) >> \o InsertByStartTime(Tail(sorted), session)
    ELSE << session >> \o sorted

RECURSIVE SortedSessions(_)
\* sessions.sort((a, b) => b.startTime.getTime() - a.startTime.getTime())
SortedSessions(sessions) ==
  IF sessions = << >> THEN << >>
  ELSE InsertByStartTime(SortedSessions(SubSeq(sessions, 1, Len(sessions) - 1)),
                         sessions[Len(sessions)])

\* date.setHours(0, 0, 0, 0)
setHoursZero(ms) ==
  ms - (ms % MsPerDay)

RECURSIVE StreakLoopBreaking(_, _, _)
\* the loop leaving at the first session that is not of currentDate
StreakLoopBreaking(sortedSessions, currentDate, streakDays) ==
  IF sortedSessions = << >> THEN streakDays
  ELSE IF setHoursZero(getTime(Head(sortedSessions).startTime)) = currentDate
    THEN StreakLoopBreaking(Tail(sortedSessions), currentDate - MsPerDay, streakDays + 1)
    ELSE streakDays

RECURSIVE StreakLoop(_, _, _)
\* the for loop of getStats over what is left of sortedSessions
StreakLoop(sortedSessions, currentDate, streakDays) ==
  IF sortedSessions = << >> THEN streakDays
  ELSE LET sessionDate == setHoursZero(getTime(Head(sortedSessions).startTime))
       IN  IF sessionDate = currentDate
             THEN StreakLoop(Tail(sortedSessions), currentDate - MsPerDay, streakDays + 1)
           ELSE IF sessionDate < currentDate
             THEN streakDays
           ELSE StreakLoop(Tail(sortedSessions), currentDate, streakDays)

\* the stats of no session
ZeroStats ==
  [ totalSessions |-> 0, totalTime |-> 0, totalVerses |-> 0,
    averageAccuracy |-> Zero, totalMistakes |-> 0, totalPauses |-> 0,
    streakDays |-> 0 ]

\* the stats of the sessions, empty list included
ComputedStats(sessions, nowMs) ==
  [ totalSessions   |-> Len(sessions),
    totalTime       |-> Sum(sessions, "totalDuration"),
    totalVerses     |-> Sum(sessions, "versesRecited"),
    averageAccuracy |-> MathRound(Frac(Sum(sessions, "averageAccuracy"), Len(sessions))),
    totalMistakes   |-> Sum(sessions, "mistakesDetected"),
    totalPauses     |-> Sum(sessions, "pausesDetected"),
    streakDays      |-> StreakLoop(SortedSessions(sessions), setHoursZero(nowMs), 0) ]

\* getStats() without its test for no session
getStatsUnguarded(history, period, nowMs) ==
  ComputedStats(getFilteredSessions(history, period, nowMs), nowMs)

\* getStats()
getStats(history, period, nowMs) ==
  LET sessions == getFilteredSessions(history, period, nowMs)
  IN  IF Len(sessions) = 0 THEN ZeroStats ELSE ComputedStats(sessions, nowMs)

\* the thresholds of getAchievements
DedicatedSessions ==
  10

MasterVerses ==
  100

WarriorStreak ==
  7

ExpertAccuracy ==
  90

\* getAchievements(), an achievement being its title
getAchievements(st) ==
  (IF st.totalSessions >= 1 THEN << "First Session" >> ELSE << >>)
    \o (IF st.totalSessions >= DedicatedSessions THEN << "Dedicated Learner" >> ELSE << >>)
    \o (IF st.totalVerses >= MasterVerses THEN << "Verse Master" >> ELSE << >>)
    \o (IF st.streakDays >= WarriorStreak THEN << "Week Warrior" >> ELSE << >>)
    \o (IF ~IsNaN(st.averageAccuracy)
             /\ FracLe(Frac(ExpertAccuracy, 1), st.averageAccuracy)
          THEN << "Accuracy Expert" >> ELSE << >>)

----------------------------------------------------------------------------
(* The histories that ProgressScreen is shown with.                         *)

\* the day after the epoch on which ProgressScreen is shown
Today ==
  StatsDays - 1

\* noon of that day
StatsNow ==
  Today * MsPerDay + 43200000

\* a closed session of ten minutes begun on the given day at the given time
StatsSession(day, timeOfDay, accuracy, recited) ==
  LET start == day * MsPerDay + timeOfDay
  IN  Spread(NewSession(start, start),
        [ endTime          |-> Date(start + 600000),
          totalDuration    |-> 600000,
          versesRecited    |-> recited,
          pausesDetected   |-> 1,
          mistakesDetected |-> 2,
          averageAccuracy  |-> accuracy ])

\* the accuracy of the sessions of a day: 90 throughout, or 89 on the odd
\* days and 90 on the even ones
AccuracyOn(day, mixed) ==
  IF mixed /\ day % 2 = 1 THEN 89 ELSE 90

RECURSIVE SessionsDownFrom(_, _, _, _, _)
\* the sessions of the chosen days from day d down, most recent first: one
\* at 8 h on each day, and when twice one at 20 h as well
SessionsDownFrom(d, days, twice, mixed, recited) ==
  IF d < 0 THEN << >>
  ELSE (IF d \in days
          THEN (IF twice THEN << StatsSession(d, 72000000, AccuracyOn(d, mixed), recited) >>
                         ELSE << >>)
                 \o << StatsSession(d, 28800000, AccuracyOn(d, mixed), recited) >>
          ELSE << >>)
         \o SessionsDownFrom(d - 1, days, twice, mixed, recited)

\* a session begun 31 days before Today
OldSession ==
  StatsSession(Today - 31, 28800000, 90, 1)

\* the histories: sessions on any of the days 0 .. StatsDays (the last being
\* tomorrow), with or without a session older than a month
StatsHistories ==
  { SessionsDownFrom(StatsDays, days, twice, mixed, recited)
      \o (IF old THEN << OldSession >> ELSE << >>) :
    days \in SUBSET (0..StatsDays), twice \in BOOLEAN, mixed \in BOOLEAN,
    recited \in { 1, 50 }, old \in BOOLEAN }

----------------------------------------------------------------------------
(* The settings of BikeModeProvider and the controls of SettingsScreen.     *)

defaultSettings ==
  [ wakeWordEnabled             |-> TRUE,
    voiceFeedbackEnabled        |-> TRUE,
    vibrationEnabled            |-> TRUE,
    autoAdvanceVerses           |-> TRUE,
    pauseDetectionSensitivity   |-> 5,
    mistakeDetectionSensitivity |-> 5,
    preferredReciter            |-> "default",
    audioQuality                |-> "medium",
    language                    |-> "ar" ]

\* the settings that have a minus and a plus button
Sensitivities ==
  { "pauseDetectionSensitivity", "mistakeDetectionSensitivity" }

\* the settings that have a switch
Switches ==
  { "wakeWordEnabled", "voiceFeedbackEnabled", "vibrationEnabled", "autoAdvanceVerses" }

\* the least value the minus button gives
SensitivityMin ==
  1

\* the greatest value the plus button gives
SensitivityMax ==
  10

\* the newValue of the minus button's onPress
MinusValue(value) ==
  Max(SensitivityMin, value - 1)

\* the newValue of the plus button's onPress
PlusValue(value) ==
  Min(SensitivityMax, value + 1)

\* the settings made of the update alone, over the defaults
updateSettingsOverDefaults(prev, newSettings) ==
  Spread(defaultSettings, newSettings)

\* the updater of updateSettings: { ...prev, ...newSettings }
updateSettings(prev, newSettings) ==
  Spread(prev, newSettings)

\* JSON.stringify(settings): the text, kept as the value it denotes
JSONstringifySettings(value) ==
  [ json |-> value ]

----------------------------------------------------------------------------
(* The state machine.                                                      *)

\* the QuranDatabase singleton after construction
Constructed ==
  /\ surahs = EmptyMap
  /\ verses = EmptyMap
  /\ isInitialized = FALSE

NoValidation ==
  /\ surahNumber = 0
  /\ verseNumber = 0
  /\ recitedText = << >>
  /\ result = << >>

NoSimilarity ==
  /\ word1 = << >>
  /\ word2 = << >>
  /\ similarity = << >>
  /\ utilSimilarity = << >>

NoNormalize ==
  /\ normalized = << >>
  /\ renormalized = << >>
  /\ navigated = << >>

\* the provider after its first render, its effect having called
\* loadSessionHistory
Mounted ==
  /\ currentSession = << >>
  /\ sessionHistory = << >>
  /\ pendingLoad = << [ item |-> storage, of |-> written ] >>

\* BikeModeScreen after its first render
NoRecitation ==
  /\ recitationStatus = "idle"
  /\ currentSurah = 1
  /\ currentAyah = 1
  /\ progress = Zero
  /\ sessionStats = [ versesRecited |-> 0, pausesDetected |-> 0,
                      mistakesDetected |-> 0, sessionDuration |-> 0 ]
  /\ sessionStartTime = 0
  /\ recordingInterval = << >>
  /\ leaked = << >>
  /\ isRecording = FALSE
  /\ starting = << >>
  /\ stopping = 0

\* ProgressScreen before its first render
NoStats ==
  /\ selectedPeriod = "week"
  /\ stats = << >>
  /\ achievements = << >>

\* the settings of a fresh installation once the provider's effects have
\* run: loadSettings found nothing, saveSettings stored the defaults
DefaultSettings ==
  /\ settings = defaultSettings
  /\ localSettings = defaultSettings
  /\ settingsStorage = << JSONstringifySettings(defaultSettings) >>

\* the provider of a fresh installation, which the library calls leave alone
NoSession ==
  /\ now = ClockStart
  /\ storage = << >>
  /\ written = << >>
  /\ Mounted
  /\ calls = 0
  /\ mounts = 0

\* a caller about to validate a recitation
InitValidate ==
  /\ Constructed
  /\ op = "validateRecitation"
  /\ \E ref \in References :
       /\ surahNumber = ref[1]
       /\ verseNumber = ref[2]
       /\ recitedText \in TextsFor(ref)
  /\ result = << >>
  /\ NoSimilarity
  /\ NoNormalize
  /\ NoSession
  /\ NoRecitation
  /\ NoStats
  /\ DefaultSettings

\* a caller about to score two words
InitSimilarity ==
  /\ Constructed
  /\ op = "calculateSimilarity"
  /\ NoValidation
  /\ word1 \in SimStrings
  /\ word2 \in SimStrings
  /\ similarity = << >>
  /\ utilSimilarity = << >>
  /\ NoNormalize
  /\ NoSession
  /\ NoRecitation
  /\ NoStats
  /\ DefaultSettings

\* a caller about to strip the diacritics of a string, with either copy of
\* removeDiacritics
InitNormalize ==
  /\ Constructed
  /\ op \in { "removeDiacritics", "utilRemoveDiacritics" }
  /\ NoValidation
  /\ word1 \in NormStrings
  /\ word2 = << >>
  /\ similarity = << >>
  /\ utilSimilarity = << >>
  /\ NoNormalize
  /\ NoSession
  /\ NoRecitation
  /\ NoStats
  /\ DefaultSettings

\* the provider mounted on a fresh installation, or on the history an
\* earlier run saved
InitSession ==
  /\ Constructed
  /\ op = "session"
  /\ NoValidation
  /\ NoSimilarity
  /\ NoNormalize
  /\ now = ClockStart
  /\ written \in { << >> } \cup { EarlierHistory(n) : n \in EarlierLengths }
  /\ storage = IF written = << >> THEN << >> ELSE << JSONstringify(written) >>
  /\ Mounted
  /\ calls = 0
  /\ mounts = 0
  /\ NoRecitation
  /\ NoStats
  /\ DefaultSettings

\* the app of a fresh installation showing BikeModeScreen
InitBike ==
  /\ Constructed
  /\ op = "bikeMode"
  /\ NoValidation
  /\ NoSimilarity
  /\ NoNormalize
  /\ NoSession
  /\ NoRecitation
  /\ NoStats
  /\ DefaultSettings

\* ProgressScreen shown over a history that the provider has loaded
InitStats ==
  /\ Constructed
  /\ op = "progress"
  /\ NoValidation
  /\ NoSimilarity
  /\ NoNormalize
  /\ now = StatsNow
  /\ currentSession = << >>
  /\ sessionHistory \in StatsHistories
  /\ storage = << JSONstringify(sessionHistory) >>
  /\ written = sessionHistory
  /\ pendingLoad = << >>
  /\ calls = 0
  /\ mounts = 0
  /\ NoRecitation
  /\ NoStats
  /\ DefaultSettings

\* a caller about to go to the next or the previous verse
InitNavigate ==
  /\ Constructed
  /\ op \in { "getNextVerse", "getPreviousVerse" }
  /\ surahNumber \in NavSurahs
  /\ verseNumber \in NavVersesOf(surahNumber)
  /\ recitedText = << >>
  /\ result = << >>
  /\ NoSimilarity
  /\ NoNormalize
  /\ NoSession
  /\ NoRecitation
  /\ NoStats
  /\ DefaultSettings

\* SettingsScreen shown on a fresh installation
InitSettings ==
  /\ Constructed
  /\ op = "settings"
  /\ NoValidation
  /\ NoSimilarity
  /\ NoNormalize
  /\ NoSession
  /\ NoRecitation
  /\ NoStats
  /\ DefaultSettings

Init ==
  \/ InitValidate \/ InitSimilarity \/ InitNormalize
  \/ InitSession \/ InitBike \/ InitStats \/ InitSettings \/ InitNavigate

\* initialize(): loadData either parses what saveData stored or runs
\* createDefaultData; saveData only ever stores the default data, so both
\* branches leave the default surahs and verses in the Maps
Initialize ==
  /\ ~isInitialized
  /\ surahs' = defaultSurahs
  /\ verses' = defaultVerses
  /\ isInitialized' = TRUE
  /\ UNCHANGED << op, surahNumber, verseNumber, recitedText, result,
                  word1, word2, similarity, utilSimilarity >>
  /\ UNCHANGED << normVars, navVars, appVars >>

\* QuranDatabase.validateRecitation(surahNumber, verseNumber, recitedText)
ValidateRecitation ==
  /\ op = "validateRecitation"
  /\ result = << >>
  /\ result' = << validateRecitation(verses, surahNumber, verseNumber, recitedText) >>
  /\ UNCHANGED << surahs, verses, isInitialized, op, surahNumber, verseNumber,
                  recitedText, word1, word2, similarity, utilSimilarity >>
  /\ UNCHANGED << normVars, navVars, appVars >>

\* QuranDatabase's calculateSimilarity(word1, word2)
CalculateSimilarity ==
  /\ op = "calculateSimilarity"
  /\ similarity = << >>
  /\ similarity' = << calculateSimilarity(word1, word2) >>
  /\ UNCHANGED << surahs, verses, isInitialized, op, surahNumber, verseNumber,
                  recitedText, result, word1, word2, utilSimilarity >>
  /\ UNCHANGED << normVars, navVars, appVars >>

\* the exported calculateSimilarity(word1, word2) of constants.ts
UtilCalculateSimilarity ==
  /\ op = "calculateSimilarity"
  /\ utilSimilarity = << >>
  /\ utilSimilarity' = << utilCalculateSimilarity(word1, word2) >>
  /\ UNCHANGED << surahs, verses, isInitialized, op, surahNumber, verseNumber,
                  recitedText, result, word1, word2, similarity >>
  /\ UNCHANGED << normVars, navVars, appVars >>

\* the string a call of removeDiacritics works on: word1, then its own result
NormArgument ==
  IF normalized = << >> THEN word1 ELSE normalized[1]

\* QuranDatabase's removeDiacritics, applied to word1 and then to its result
RemoveDiacritics ==
  /\ op = "removeDiacritics"
  /\ renormalized = << >>
  /\ IF normalized = << >>
       THEN normalized' = << removeDiacritics(NormArgument) >>
            /\ UNCHANGED renormalized
       ELSE renormalized' = << removeDiacritics(NormArgument) >>
            /\ UNCHANGED normalized
  /\ UNCHANGED << surahs, verses, isInitialized, op, surahNumber, verseNumber,
                  recitedText, result, word1, word2, similarity, utilSimilarity >>
  /\ UNCHANGED << navVars, appVars >>

\* the exported removeDiacritics of constants.ts, applied likewise
UtilRemoveDiacritics ==
  /\ op = "utilRemoveDiacritics"
  /\ renormalized = << >>
  /\ IF normalized = << >>
       THEN normalized' = << utilRemoveDiacritics(NormArgument) >>
            /\ UNCHANGED renormalized
       ELSE renormalized' = << utilRemoveDiacritics(NormArgument) >>
            /\ UNCHANGED normalized
  /\ UNCHANGED << surahs, verses, isInitialized, op, surahNumber, verseNumber,
                  recitedText, result, word1, word2, similarity, utilSimilarity >>
  /\ UNCHANGED << navVars, appVars >>

----------------------------------------------------------------------------
(* BikeModeProvider.                                                        *)

\* the readings a clock that showed t can show next within one handler
Later(t) ==
  IF t < ClockStart + MaxClock THEN { t, t + 1 } ELSE { t }

\* the partial sessions handed to updateSession: a verse count, and an end
\* time (the case endSession's test of currentSession.endTime provides for)
Updates ==
  { [ versesRecited |-> 1 ], [ endTime |-> Date(now) ] }

\* time passing between two handlers
Tick ==
  /\ now < ClockStart + MaxClock
  /\ now' = now + 1
  /\ UNCHANGED << currentSession, sessionHistory, storage, written, pendingLoad,
                  calls, mounts >>
  /\ UNCHANGED << dbVars, callVars, screenVars, statsVars, settingsVars >>

\* startSession(): the id and the start time are two readings of the clock
StartSession ==
  /\ calls < MaxCalls
  /\ \E startNow \in Later(now) :
       /\ currentSession' = << NewSession(now, startNow) >>
       /\ now' = startNow
  /\ calls' = calls + 1
  /\ UNCHANGED << sessionHistory, storage, written, pendingLoad, mounts >>
  /\ UNCHANGED << dbVars, callVars, screenVars, statsVars, settingsVars >>

\* endSession() saving the history also when no session is open
EndSessionSavingAnyway ==
  /\ calls < MaxCalls
  /\ calls' = calls + 1
  /\ IF currentSession # << >>
       THEN \E endNow \in Later(now) : \E durationNow \in Later(endNow) :
              LET endedSession   == EndedSession(currentSession[1], endNow, durationNow)
                  updatedHistory == UpdatedHistory(endedSession, sessionHistory)
              IN  /\ "endTime" \in DOMAIN currentSession[1] => durationNow = endNow
                  /\ sessionHistory' = updatedHistory
                  /\ storage' = << JSONstringify(updatedHistory) >>
                  /\ written' = updatedHistory
                  /\ currentSession' = << >>
                  /\ now' = durationNow
       ELSE /\ storage' = << JSONstringify(sessionHistory) >>
            /\ written' = sessionHistory
            /\ UNCHANGED << now, currentSession, sessionHistory >>
  /\ UNCHANGED << pendingLoad, mounts >>
  /\ UNCHANGED << dbVars, callVars, screenVars, statsVars, settingsVars >>

\* endSession(), saveSessionHistory(updatedHistory) included: AsyncStorage
\* carries out setItem and removeItem in the order they were asked for
EndSession ==
  /\ calls < MaxCalls
  /\ calls' = calls + 1
  /\ IF currentSession # << >>
       THEN \E endNow \in Later(now) : \E durationNow \in Later(endNow) :
              LET endedSession   == EndedSession(currentSession[1], endNow, durationNow)
                  updatedHistory == UpdatedHistory(endedSession, sessionHistory)
              IN  /\ "endTime" \in DOMAIN currentSession[1] => durationNow = endNow
                  /\ sessionHistory' = updatedHistory
                  /\ storage' = << JSONstringify(updatedHistory) >>
                  /\ written' = updatedHistory
                  /\ currentSession' = << >>
                  /\ now' = durationNow
       ELSE UNCHANGED << now, currentSession, sessionHistory, storage, written >>
  /\ UNCHANGED << pendingLoad, mounts >>
  /\ UNCHANGED << dbVars, callVars, screenVars, statsVars, settingsVars >>

\* updateSession(updates)
UpdateSession ==
  /\ calls < MaxCalls
  /\ calls' = calls + 1
  /\ \E updates \in Updates :
       IF currentSession # << >>
         THEN currentSession' = << Spread(currentSession[1], updates) >>
         ELSE UNCHANGED currentSession
  /\ UNCHANGED << now, sessionHistory, storage, written, pendingLoad, mounts >>
  /\ UNCHANGED << dbVars, callVars, screenVars, statsVars, settingsVars >>

\* clearSessionHistory()
ClearSessionHistory ==
  /\ calls < MaxCalls
  /\ calls' = calls + 1
  /\ sessionHistory' = << >>
  /\ storage' = << >>
  /\ written' = << >>
  /\ UNCHANGED << now, currentSession, pendingLoad, mounts >>
  /\ UNCHANGED << dbVars, callVars, screenVars, statsVars, settingsVars >>

\* loadSessionHistory() after its await: getItem gave what the storage held
\* when the provider was mounted
LoadSessionHistory ==
  /\ pendingLoad # << >>
  /\ LET historyData == pendingLoad[1].item
     IN  IF historyData # << >>
           THEN sessionHistory' = HistoryWithDates(JSONparse(historyData[1]))
           ELSE UNCHANGED sessionHistory
  /\ pendingLoad' = << >>
  /\ UNCHANGED << now, currentSession, storage, written, calls, mounts >>
  /\ UNCHANGED << dbVars, callVars, screenVars, statsVars, settingsVars >>

\* the app is started again: the provider is mounted anew over the storage
\* the run before left
Mount ==
  /\ mounts < MaxMounts
  /\ mounts' = mounts + 1
  /\ currentSession' = << >>
  /\ sessionHistory' = << >>
  /\ pendingLoad' = << [ item |-> storage, of |-> written ] >>
  /\ UNCHANGED << now, storage, written, calls >>
  /\ UNCHANGED << dbVars, callVars, screenVars, statsVars, settingsVars >>

----------------------------------------------------------------------------
(* BikeModeScreen.  The callback of setInterval, and the handlers it calls, *)
(* belong to the render in which startRecording ran: they see the           *)
(* currentSurah and currentAyah of that render.                             *)

\* what the functions of the render on the screen close over
Closure ==
  [ currentSurah |-> currentSurah, currentAyah |-> currentAyah ]

\* what the functions of the first render close over: handleWakeWordDetected,
\* which initializeBikeMode hands to AudioService, is the first render's
FirstRender ==
  [ currentSurah |-> 1, currentAyah |-> 1 ]

\* the running timers
Timers ==
  leaked \o recordingInterval

\* startContinuousProcessing() of a render: setInterval, its result assigned
\* to the ref whatever the ref referred to
startContinuousProcessing(seen) ==
  /\ recordingInterval' = << seen >>
  /\ leaked' = leaked \o recordingInterval

\* stopContinuousProcessing(): clearInterval of the timer the ref refers to
stopContinuousProcessing ==
  /\ recordingInterval' = << >>
  /\ leaked' = leaked

\* the sequence without its i-th element
Without(seq, i) ==
  SubSeq(seq, 1, i - 1) \o SubSeq(seq, i + 1, Len(seq))

\* startRecording() from the Start button, AudioService starting to record
\* before anything else happens
StartRecording ==
  /\ recitationStatus # "recording"
  /\ recitationStatus' = "recording"
  /\ sessionStartTime' = now
  /\ isRecording' = TRUE
  /\ startContinuousProcessing(Closure)
  /\ UNCHANGED << currentSurah, currentAyah, progress, sessionStats,
                  starting, stopping >>
  /\ UNCHANGED << dbVars, callVars, sessionVars, statsVars, settingsVars >>

\* stopRecording() from the Stop button, AudioService having stopped before
\* anything else happens
StopRecording ==
  /\ recitationStatus # "idle"
  /\ recitationStatus' = "idle"
  /\ isRecording' = FALSE
  /\ stopContinuousProcessing
  /\ sessionStats' = [ sessionStats EXCEPT !.sessionDuration = now - sessionStartTime ]
  /\ UNCHANGED << currentSurah, currentAyah, progress, sessionStartTime,
                  starting, stopping >>
  /\ UNCHANGED << dbVars, callVars, sessionVars, statsVars, settingsVars >>

\* handlePauseDetected(), called by a timer's callback when
\* AudioService.processAudioChunk(), which returns null unless isRecording,
\* reports the event
HandlePauseDetected ==
  /\ isRecording
  /\ Timers # << >>
  /\ sessionStats.pausesDetected < MaxEvents
  /\ sessionStats' = [ sessionStats EXCEPT !.pausesDetected = @ + 1 ]
  /\ UNCHANGED << recitationStatus, currentSurah, currentAyah, progress,
                  sessionStartTime, recordingInterval, leaked, isRecording,
                  starting, stopping >>
  /\ UNCHANGED << dbVars, callVars, sessionVars, statsVars, settingsVars >>

\* handleMistakeDetected(mistakeDetails), called by a timer's callback when
\* AudioService.processAudioChunk(), which returns null unless isRecording,
\* reports the event
HandleMistakeDetected ==
  /\ isRecording
  /\ Timers # << >>
  /\ sessionStats.mistakesDetected < MaxEvents
  /\ sessionStats' = [ sessionStats EXCEPT !.mistakesDetected = @ + 1 ]
  /\ UNCHANGED << recitationStatus, currentSurah, currentAyah, progress,
                  sessionStartTime, recordingInterval, leaked, isRecording,
                  starting, stopping >>
  /\ UNCHANGED << dbVars, callVars, sessionVars, statsVars, settingsVars >>

\* handleVerseCompleted(), called by a timer's callback when
\* AudioService.processAudioChunk() reports the event, updateProgress()
\* included
HandleVerseCompleted ==
  /\ isRecording
  /\ sessionStats.versesRecited < MaxEvents
  /\ sessionStats' = [ sessionStats EXCEPT !.versesRecited = @ + 1 ]
  /\ \E t \in DOMAIN Timers :
       LET seen      == Timers[t]
           nextVerse == getNextVerse(surahs, seen.currentSurah, seen.currentAyah)
           surahInfo == getSurahInfo(surahs, seen.currentSurah)
       IN  IF nextVerse # << >>
             THEN /\ currentSurah' = nextVerse[1].surah
                  /\ currentAyah' = nextVerse[1].verse
                  /\ progress' = Frac(seen.currentAyah * 100, surahInfo[1].totalVerses)
             ELSE UNCHANGED << currentSurah, currentAyah, progress >>
  /\ UNCHANGED << recitationStatus, sessionStartTime, recordingInterval,
                  leaked, isRecording, starting, stopping >>
  /\ UNCHANGED << dbVars, callVars, sessionVars, statsVars, settingsVars >>

----------------------------------------------------------------------------
(* BikeModeScreen, the handlers taken apart where they wait for the audio   *)
(* service: a press or a wake word can come while a call is waiting.        *)

\* the Start button, enabled unless the status is 'recording', is pressed:
\* startRecording() of the render on the screen, up to its
\* await AudioService.startRecording()
PressStart ==
  /\ recitationStatus # "recording"
  /\ Len(starting) < MaxPending
  /\ recitationStatus' = "recording"
  /\ sessionStartTime' = now
  /\ starting' = Append(starting, Closure)
  /\ UNCHANGED << currentSurah, currentAyah, progress, sessionStats,
                  recordingInterval, leaked, isRecording, stopping >>
  /\ UNCHANGED << dbVars, callVars, sessionVars, statsVars, settingsVars >>

\* AudioService hears a wake word and calls handleWakeWordDetected, which
\* initializeBikeMode registered after QuranDatabase.initialize():
\* startRecording() of the first render, up to its
\* await AudioService.startRecording()
HandleWakeWordDetected ==
  /\ isInitialized
  /\ Len(starting) < MaxPending
  /\ recitationStatus' = "recording"
  /\ sessionStartTime' = now
  /\ starting' = Append(starting, FirstRender)
  /\ UNCHANGED << currentSurah, currentAyah, progress, sessionStats,
                  recordingInterval, leaked, isRecording, stopping >>
  /\ UNCHANGED << dbVars, callVars, sessionVars, statsVars, settingsVars >>

\* AudioService.startRecording() of a waiting startRecording() returns,
\* Voice.start having resolved: the rest of startRecording()
AudioStarted ==
  /\ Len(Timers) <= MaxLeaked
  /\ \E i \in DOMAIN starting :
       /\ isRecording' = TRUE
       /\ startContinuousProcessing(starting[i])
       /\ starting' = Without(starting, i)
  /\ UNCHANGED << recitationStatus, currentSurah, currentAyah, progress,
                  sessionStats, sessionStartTime, stopping >>
  /\ UNCHANGED << dbVars, callVars, sessionVars, statsVars, settingsVars >>

\* the Stop button, enabled unless the status is 'idle', is pressed:
\* stopRecording() up to the await Voice.stop() of
\* AudioService.stopRecording(), which waits for nothing unless isRecording
PressStop ==
  /\ recitationStatus # "idle"
  /\ recitationStatus' = "idle"
  /\ IF isRecording
       THEN /\ stopping < MaxPending
            /\ stopping' = stopping + 1
            /\ UNCHANGED << recordingInterval, leaked, sessionStats >>
       ELSE /\ stopContinuousProcessing
            /\ sessionStats' = [ sessionStats EXCEPT
                                   !.sessionDuration = now - sessionStartTime ]
            /\ UNCHANGED stopping
  /\ UNCHANGED << currentSurah, currentAyah, progress, sessionStartTime,
                  isRecording, starting >>
  /\ UNCHANGED << dbVars, callVars, sessionVars, statsVars, settingsVars >>

\* Voice.stop() of a waiting stopRecording() resolves: the rest of
\* AudioService.stopRecording() and of stopRecording()
AudioStopped ==
  /\ stopping > 0
  /\ stopping' = stopping - 1
  /\ isRecording' = FALSE
  /\ stopContinuousProcessing
  /\ sessionStats' = [ sessionStats EXCEPT !.sessionDuration = now - sessionStartTime ]
  /\ UNCHANGED << recitationStatus, currentSurah, currentAyah, progress,
                  sessionStartTime, starting >>
  /\ UNCHANGED << dbVars, callVars, sessionVars, statsVars, settingsVars >>

----------------------------------------------------------------------------
(* ProgressScreen.                                                          *)

\* a period button is pressed; the screen is rendered again
SetSelectedPeriod ==
  /\ \E period \in { "week", "month", "all" } \ { selectedPeriod } :
       selectedPeriod' = period
  /\ stats' = << >>
  /\ achievements' = << >>
  /\ UNCHANGED << dbVars, callVars, sessionVars, screenVars, settingsVars >>

\* the render's getStats()
GetStats ==
  /\ stats = << >>
  /\ stats' = << getStats(sessionHistory, selectedPeriod, now) >>
  /\ UNCHANGED << selectedPeriod, achievements >>
  /\ UNCHANGED << dbVars, callVars, sessionVars, screenVars, settingsVars >>

\* the render's getAchievements()
GetAchievements ==
  /\ achievements = << >>
  /\ achievements' = << getAchievements(getStats(sessionHistory, selectedPeriod, now)) >>
  /\ UNCHANGED << selectedPeriod, stats >>
  /\ UNCHANGED << dbVars, callVars, sessionVars, screenVars, settingsVars >>

----------------------------------------------------------------------------
(* SettingsScreen.  A press is followed by the render it causes, in which   *)
(* the provider's effect saves the settings and the screen's effect copies  *)
(* them to localSettings.                                                   *)

\* handleSettingChange(key, value) and the effects of the render after it
HandleSettingChange(key, value) ==
  LET updated == updateSettings(settings, [ k \in { key } |-> value ])
  IN  /\ settings' = updated
      /\ settingsStorage' = << JSONstringifySettings(updated) >>
      /\ localSettings' = updated
      /\ UNCHANGED << dbVars, callVars, sessionVars, screenVars, statsVars >>

\* the minus button of a sensitivity is pressed
PressMinus ==
  \E key \in Sensitivities : HandleSettingChange(key, MinusValue(localSettings[key]))

\* the plus button of a sensitivity is pressed
PressPlus ==
  \E key \in Sensitivities : HandleSettingChange(key, PlusValue(localSettings[key]))

\* a switch is flipped
FlipSwitch ==
  \E key \in Switches : HandleSettingChange(key, ~localSettings[key])

\* QuranDatabase.getNextVerse(surahNumber, verseNumber)
GetNextVerse ==
  /\ op = "getNextVerse"
  /\ navigated = << >>
  /\ navigated' = << getNextVerse(surahs, surahNumber, verseNumber) >>
  /\ UNCHANGED << dbVars, op, surahNumber, verseNumber, recitedText, result,
                  word1, word2, similarity, utilSimilarity, normVars, appVars >>

\* QuranDatabase.getPreviousVerse(surahNumber, verseNumber)
GetPreviousVerse ==
  /\ op = "getPreviousVerse"
  /\ navigated = << >>
  /\ navigated' = << getPreviousVerse(surahs, surahNumber, verseNumber) >>
  /\ UNCHANGED << dbVars, op, surahNumber, verseNumber, recitedText, result,
                  word1, word2, similarity, utilSimilarity, normVars, appVars >>

NextValidate ==
  Initialize \/ ValidateRecitation

NextNormalize ==
  RemoveDiacritics \/ UtilRemoveDiacritics

NextSimilarity ==
  CalculateSimilarity \/ UtilCalculateSimilarity

NextSession ==
  \/ Tick \/ Mount \/ LoadSessionHistory
  \/ StartSession \/ EndSession \/ UpdateSession \/ ClearSessionHistory

NextBike ==
  \/ Initialize \/ StartSession \/ EndSession
  \/ StartRecording \/ StopRecording
  \/ HandlePauseDetected \/ HandleMistakeDetected \/ HandleVerseCompleted

NextRecording ==
  \/ Initialize
  \/ PressStart \/ HandleWakeWordDetected \/ AudioStarted
  \/ PressStop \/ AudioStopped
  \/ HandlePauseDetected \/ HandleMistakeDetected \/ HandleVerseCompleted

NextStats ==
  SetSelectedPeriod \/ GetStats \/ GetAchievements

NextSettings ==
  PressMinus \/ PressPlus \/ FlipSwitch

NextNavigate ==
  Initialize \/ GetNextVerse \/ GetPreviousVerse

Next ==
  \/ GetNextVerse \/ GetPreviousVerse
  \/ PressMinus \/ PressPlus \/ FlipSwitch
  \/ SetSelectedPeriod \/ GetStats \/ GetAchievements
  \/ StartRecording \/ StopRecording
  \/ PressStart \/ HandleWakeWordDetected \/ AudioStarted
  \/ PressStop \/ AudioStopped
  \/ HandlePauseDetected \/ HandleMistakeDetected \/ HandleVerseCompleted
  \/ Initialize \/ ValidateRecitation
  \/ CalculateSimilarity \/ UtilCalculateSimilarity
  \/ RemoveDiacritics \/ UtilRemoveDiacritics
  \/ Tick \/ Mount \/ LoadSessionHistory
  \/ StartSession \/ EndSession \/ UpdateSession \/ ClearSessionHistory

SpecValidate ==
  InitValidate /\ [][NextValidate]_vars

SpecSimilarity ==
  InitSimilarity /\ [][NextSimilarity]_vars

SpecSession ==
  InitSession /\ [][NextSession]_vars

SpecBike ==
  InitBike /\ [][NextBike]_vars

SpecRecording ==
  InitBike /\ [][NextRecording]_vars

SpecStats ==
  InitStats /\ [][NextStats]_vars

SpecSettings ==
  InitSettings /\ [][NextSettings]_vars

SpecNavigate ==
  InitNavigate /\ [][NextNavigate]_vars

SpecNormalize ==
  InitNormalize /\ [][NextNormalize]_vars

Spec ==
  Init /\ [][Next]_vars

----------------------------------------------------------------------------
(* What the claims speak of.                                               *)

\* the step in which validateRecitation returns
Returns ==
  result = << >> /\ result' # << >>

\* the ValidationResult that was returned
Ret ==
  result[1]

\* the verse of the call is in the corpus, and its canonical words
Present ==
  VerseKey(surahNumber, verseNumber) \in DOMAIN verses

Canon ==
  verses[VerseKey(surahNumber, verseNumber)].words

\* the recited text is the words p joined by white space
IsTextOf(p) ==
  recitedText \in { Plain(p), Ragged(p) }

\* the positions (1-based) of the mistakes of a type
MistakesOfType(mistakes, t) ==
  { i \in 1..Len(mistakes) : mistakes[i].type = t }

----------------------------------------------------------------------------
(* C1..C5: validateRecitation                                              *)

\* C1: for every verse of the corpus, a recited text that is the canonical
\* words joined by white space gets accuracy 100, no mistakes, no missing
\* and no extra words, and isValid true.
C1_ExactRecitationIsPerfect ==
  [][ (Returns /\ Present /\ IsTextOf(Canon)) =>
        /\ FracEq(Ret'.accuracy, Accuracy100)
        /\ Ret'.mistakes = << >>
        /\ Ret'.missingWords = << >>
        /\ Ret'.extraWords = << >>
        /\ Ret'.isValid = TRUE ]_vars

\* the nine words of verse 1:7, recited exactly with ragged white space,
\* were validated as perfect
C1_Witness ==
  /\ result # << >>
  /\ Present
  /\ Len(Canon) = 9
  /\ recitedText = Ragged(Canon)
  /\ FracEq(Ret.accuracy, Accuracy100)
  /\ Ret.isValid

\* C2: for a verse of N canonical words and 0 <= k < N, a recitation of
\* exactly the first k canonical words gets exactly N - k mistakes, all
\* omissions of severity high at the positions k..N-1 in increasing order,
\* missingWords equal to the last N - k canonical words, accuracy 100*k/N,
\* and isValid false whenever 100*k/N < 70.
C2_PrefixRecitationOmissions ==
  [][ (Returns /\ Present) =>
        \A k \in 0..(Len(Canon) - 1) :
          IsTextOf(SubSeq(Canon, 1, k)) =>
            LET N == Len(Canon)
                m == Ret'.mistakes
            IN  /\ Len(m) = N - k
                /\ \A i \in 1..Len(m) :
                     /\ m[i].type = "omission"
                     /\ m[i].severity = "high"
                     /\ m[i].position = k + i - 1
                /\ Ret'.missingWords = SubSeq(Canon, k + 1, N)
                /\ FracEq(Ret'.accuracy, Frac(100 * k, N))
                /\ (100 * k < 70 * N => Ret'.isValid = FALSE) ]_vars

\* the first two of the four words of verse 1:1: two omissions at the
\* positions 2 and 3, accuracy 50, not valid
C2_Witness ==
  /\ result # << >>
  /\ surahNumber = 1 /\ verseNumber = 1
  /\ Present
  /\ recitedText = Plain(SubSeq(Canon, 1, 2))
  /\ Len(Ret.mistakes) = 2
  /\ Ret.mistakes[1].type = "omission" /\ Ret.mistakes[1].position = 2
  /\ Ret.mistakes[2].type = "omission" /\ Ret.mistakes[2].position = 3
  /\ FracEq(Ret.accuracy, Frac(50, 1))
  /\ Ret.isValid = FALSE

\* C3: validateRecitation for a reference that is absent from the corpus
\* returns isValid false, accuracy 0 and empty mistakes, missingWords and
\* extraWords, whatever the recited text (a result, never an exception).
C3_AbsentVerseResult ==
  (result # << >> /\ ~Present) =>
    /\ Ret.isValid = FALSE
    /\ FracEq(Ret.accuracy, Zero)
    /\ Ret.mistakes = << >>
    /\ Ret.missingWords = << >>
    /\ Ret.extraWords = << >>

\* a non-empty text was validated against 2:1, a chapter the loaded corpus
\* knows but has no verse text for
C3_Witness ==
  /\ result # << >>
  /\ isInitialized
  /\ surahNumber = 2 /\ verseNumber = 1
  /\ ~Present
  /\ Len(RecitedWords(recitedText)) = 2
  /\ Ret.isValid = FALSE

\* C4: when more words are recited than the N canonical words, exactly one
\* mistake of type addition is appended, with position N and severity
\* medium, however many the surplus words, and extraWords is the recited
\* words from index N on in recited order; otherwise there is no addition
\* mistake and extraWords is empty.
C4_OneAdditionForSurplus ==
  [][ (Returns /\ Present) =>
        LET rw == RecitedWords(recitedText)
            N  == Len(Canon)
            m  == Ret'.mistakes
        IN  IF Len(rw) > N
              THEN /\ MistakesOfType(m, "addition") = { Len(m) }
                   /\ m[Len(m)].position = N
                   /\ m[Len(m)].severity = "medium"
                   /\ Ret'.extraWords = SubSeq(rw, N + 1, Len(rw))
              ELSE /\ MistakesOfType(m, "addition") = { }
                   /\ Ret'.extraWords = << >> ]_vars

\* two surplus words after a recitation with a mispronounced word: one
\* addition mistake, after the pronunciation mistake
C4_Witness ==
  /\ result # << >>
  /\ Present
  /\ Len(Ret.extraWords) = 2
  /\ Ret.extraWords[1] # Ret.extraWords[2]
  /\ Cardinality(MistakesOfType(Ret.mistakes, "addition")) = 1
  /\ Cardinality(MistakesOfType(Ret.mistakes, "pronunciation")) = 1

\* C5: for every verse of the corpus and every recited text, accuracy is
\* 100 * (N - |missingWords| - number of pronunciation mistakes) / N, lies
\* in [0, 100], and isValid holds exactly when accuracy >= 70; addition
\* mistakes do not enter the accuracy.
C5_AccuracyFormula ==
  [][ (Returns /\ Present) =>
        LET N == Len(Canon)
            p == Cardinality(MistakesOfType(Ret'.mistakes, "pronunciation"))
            acc == Ret'.accuracy
        IN  /\ FracEq(acc, Frac(100 * (N - Len(Ret'.missingWords) - p), N))
            /\ FracLe(Zero, acc)
            /\ FracLe(acc, Accuracy100)
            /\ (Ret'.isValid <=> FracLe(Accuracy70, acc)) ]_vars

\* nine words with two mispronounced and a surplus word: three mistakes,
\* accuracy 700/9 and still valid
C5_Witness ==
  /\ result # << >>
  /\ Present
  /\ Len(Canon) = 9
  /\ Cardinality(MistakesOfType(Ret.mistakes, "pronunciation")) = 2
  /\ Cardinality(MistakesOfType(Ret.mistakes, "addition")) = 1
  /\ FracEq(Ret.accuracy, Frac(700, 9))
  /\ Ret.isValid

----------------------------------------------------------------------------
(* C6..C10: the two calculateSimilarity functions                          *)

\* the values returned
Sim ==
  similarity[1]

UtilSim ==
  utilSimilarity[1]

\* both normalized (diacritic-stripped) forms are empty
BothEmptyNormalized ==
  Letters(word1) = << >> /\ Letters(word2) = << >>

\* the words differ, also after normalization
DifferNormalized ==
  word1 # word2 /\ Letters(word1) # Letters(word2)

\* the number of positions at which a and b hold the same code unit
SamePositions(a, b) ==
  Cardinality({ i \in 1..Min(Len(a), Len(b)) : a[i] = b[i] })

InUnitInterval(x) ==
  FracLe(Zero, x) /\ FracLe(x, One)

\* C6: the similarity of a string with itself is exactly 1.0, in the
\* validator's calculateSimilarity and in the exported one, the empty
\* string and strings made only of diacritics included.
C6_SelfSimilarityIsOne ==
  word1 = word2 =>
    /\ similarity # << >> => FracEq(Sim, One)
    /\ utilSimilarity # << >> => FracEq(UtilSim, One)

\* a string of two diacritics was scored against itself by both functions
C6_Witness ==
  /\ word1 = << 1616, 1616 >>
  /\ word2 = word1
  /\ similarity # << >> /\ FracEq(Sim, One)
  /\ utilSimilarity # << >> /\ FracEq(UtilSim, One)

\* C7: similarity(a, b) is 0.9 when a # b but the normalized forms are
\* equal, in either argument order, and is 1.0 only when a and b are
\* equal as raw strings.
C7_DiacriticOnlyDifference ==
  LET sameNormalized == word1 # word2 /\ Letters(word1) = Letters(word2)
  IN  /\ similarity # << >> =>
           /\ sameNormalized => FracEq(Sim, NineTenths)
           /\ FracEq(Sim, One) => word1 = word2
      /\ utilSimilarity # << >> =>
           /\ sameNormalized => FracEq(UtilSim, NineTenths)
           /\ FracEq(UtilSim, One) => word1 = word2

\* beh with kasra against bare beh: 0.9 from both functions
C7_Witness ==
  /\ word1 = << 1576, 1616 >>
  /\ word2 = << 1576 >>
  /\ similarity # << >> /\ FracEq(Sim, NineTenths)
  /\ utilSimilarity # << >> /\ FracEq(UtilSim, NineTenths)

\* C8 as stated: for all a, b whose normalized forms are both empty,
\* similarity(a, b) is 0.0.
C8_EmptyNormalizedIsZero ==
  BothEmptyNormalized =>
    /\ similarity # << >> => FracEq(Sim, Zero)
    /\ utilSimilarity # << >> => FracEq(UtilSim, Zero)

\* C8 as amended: for all a, b whose normalized forms are both empty,
\* similarity(a, b) is 1.0 when a = b and 0.9 when a # b; it is never 0.0.
C8_EmptyNormalizedIsOneOrNineTenths ==
  BothEmptyNormalized =>
    LET expected == IF word1 = word2 THEN One ELSE NineTenths
    IN  /\ similarity # << >> => FracEq(Sim, expected)
        /\ utilSimilarity # << >> => FracEq(UtilSim, expected)

\* the empty string against a lone kasra: 0.9 from both functions
C8_Witness ==
  /\ word1 = << >>
  /\ word2 = << 1616 >>
  /\ similarity # << >> /\ FracEq(Sim, NineTenths)
  /\ utilSimilarity # << >> /\ FracEq(UtilSim, NineTenths)

\* C9 as stated: for words that differ also after normalization, the
\* similarity used by validateRecitation is 1 - distance / max(len a', len b')
\* with the Levenshtein distance of the normalized words a', b', and so
\* agrees with the exported calculateSimilarity.
C9_ValidatorUsesLevenshtein ==
  (similarity # << >> /\ utilSimilarity # << >> /\ DifferNormalized) =>
    LET a == Letters(word1)
        b == Letters(word2)
        maxLen == Max(Len(a), Len(b))
    IN  /\ FracEq(Sim, Frac(maxLen - levenshteinDistance(a, b), maxLen))
        /\ FracEq(Sim, UtilSim)

\* C9 as amended: for words that differ also after normalization, the
\* similarity used by validateRecitation is matches / max(len a', len b'),
\* matches being the number of positions at which the normalized words
\* a', b' hold the same character; it never exceeds
\* 1 - distance / max(len a', len b') with their Levenshtein distance.
C9_ValidatorCountsSamePositions ==
  (similarity # << >> /\ DifferNormalized) =>
    LET a == Letters(word1)
        b == Letters(word2)
        maxLen == Max(Len(a), Len(b))
    IN  /\ FracEq(Sim, Frac(SamePositions(a, b), maxLen))
        /\ FracLe(Sim, Frac(maxLen - levenshteinDistance(a, b), maxLen))

\* 'a' beh against beh: no position agrees, so the validator's function
\* says 0 where the edit distance 1 gives the exported function 1/2
C9_Witness ==
  /\ word1 = << 97, 1576 >>
  /\ word2 = << 1576 >>
  /\ similarity # << >> /\ FracEq(Sim, Zero)
  /\ utilSimilarity # << >> /\ FracEq(UtilSim, Frac(1, 2))

\* C10: similarity(a, b) lies in [0, 1] and equals similarity(b, a), for
\* both functions; levenshteinDistance(a, b) equals levenshteinDistance(b, a)
\* and is at most max(len a, len b) on the cleaned strings it is called with.
C10_RangeAndSymmetry ==
  /\ similarity # << >> =>
       /\ InUnitInterval(Sim)
       /\ FracEq(Sim, calculateSimilarity(word2, word1))
  /\ utilSimilarity # << >> =>
       LET a == toLowerCase(Letters(word1))
           b == toLowerCase(Letters(word2))
       IN  /\ InUnitInterval(UtilSim)
           /\ FracEq(UtilSim, utilCalculateSimilarity(word2, word1))
           /\ levenshteinDistance(a, b) = levenshteinDistance(b, a)
           /\ levenshteinDistance(a, b) <= Max(Len(a), Len(b))

\* 'a' beh 'a' against beh 'A': the exported function returns 2/3 (one
\* deletion in three), the validator's 0
C10_Witness ==
  /\ word1 = << 97, 1576, 97 >>
  /\ word2 = << 1576, 65 >>
  /\ similarity # << >> /\ FracEq(Sim, Zero)
  /\ utilSimilarity # << >> /\ FracEq(UtilSim, Frac(2, 3))

----------------------------------------------------------------------------
(* C11: removeDiacritics                                                   *)

\* C11: removeDiacritics is idempotent, its result holds none of the listed
\* diacritic code points, and it removes only those: the other characters
\* of the argument are in the result in the same order and number.
C11_RemoveDiacriticsIdempotent ==
  /\ normalized # << >> =>
       /\ \A i \in 1..Len(normalized[1]) : normalized[1][i] \notin DiacriticSet
       /\ normalized[1] = Letters(word1)
  /\ renormalized # << >> => renormalized = normalized

\* U+0655 fatha beh U+065F: both listed diacritics went, the unlisted mark
\* and the letter stayed, and a second application changed nothing
C11_Witness ==
  /\ word1 = << 1621, 1614, 1576, 1631 >>
  /\ normalized = << << 1621, 1576 >> >>
  /\ renormalized = normalized

----------------------------------------------------------------------------
(* Claims about the sessions of BikeModeProvider.                           *)

\* a step of endSession that closes the open session
Closes ==
  /\ currentSession # << >>
  /\ currentSession' = << >>
  /\ mounts' = mounts

\* a step of startSession
Starts ==
  /\ currentSession' # << >>
  /\ calls' = calls + 1
  /\ currentSession'[1].versesRecited = 0
  /\ "endTime" \notin DOMAIN currentSession'[1]
  /\ getTime(currentSession'[1].startTime) >= now

\* C12: whatever the calls, sessionHistory never holds more than 50
\* sessions and is ordered most-recent-first; each endSession puts the
\* session it closes at index 0, keeps the sessions before it in their
\* order, and at the cap drops the last (oldest) one.
C12_HistoryCappedMostRecentFirst ==
  /\ [](/\ Len(sessionHistory) <= HistoryCap
        /\ \A i \in 1..(Len(sessionHistory) - 1) :
             getTime(sessionHistory[i].endTime)
               >= getTime(sessionHistory[i + 1].endTime))
  /\ [][ Closes =>
           /\ Len(sessionHistory') = Min(Len(sessionHistory) + 1, HistoryCap)
           /\ sessionHistory'[1].id = currentSession[1].id
           /\ sessionHistory'[1].startTime = currentSession[1].startTime
           /\ \A i \in 2..Len(sessionHistory') :
                sessionHistory'[i] = sessionHistory[i - 1] ]_vars

\* two sessions were closed on top of a loaded history: the newest two are
\* in front and the oldest of the earlier ones have been dropped
C12_Witness ==
  /\ Len(sessionHistory) = HistoryCap
  /\ getTime(sessionHistory[2].startTime) >= ClockStart
  /\ sessionHistory[HistoryCap] = EarlierSession(HistoryCap - 2)

\* C13: startSession called while a session is open closes that session
\* first: it gets an endTime and is put in sessionHistory before the new
\* session becomes the current one, so that no opened session is lost.
C13_StartClosesPriorSession ==
  [][ (Starts /\ currentSession # << >>) =>
        /\ sessionHistory' # << >>
        /\ sessionHistory'[1].id = currentSession[1].id
        /\ "endTime" \in DOMAIN sessionHistory'[1] ]_vars

\* C14: every session in sessionHistory has an endTime, and its
\* totalDuration is endTime - startTime and is not negative, whatever
\* updateSession did while the session was open.
C14_ClosedSessionsHaveTheirDuration ==
  \A i \in 1..Len(sessionHistory) :
    /\ "endTime" \in DOMAIN sessionHistory[i]
    /\ sessionHistory[i].totalDuration
         = getTime(sessionHistory[i].endTime) - getTime(sessionHistory[i].startTime)
    /\ sessionHistory[i].totalDuration >= 0

\* the ids of the sessions of sessionHistory, followed by that of the open
\* session if there is one
SessionIds ==
  [ i \in 1..Len(sessionHistory) |-> sessionHistory[i].id ]
    \o [ i \in 1..Len(currentSession) |-> currentSession[i].id ]

\* C20: session ids are unique: no two sessions of sessionHistory, nor the
\* open session and a session of sessionHistory, have the same id, also
\* when two sessions were started within the same millisecond.
C20_SessionIdsUnique ==
  \A i, j \in 1..Len(SessionIds) : i # j => SessionIds[i] # SessionIds[j]

\* a step in which loadSessionHistory sets the history it read
Loads ==
  /\ pendingLoad # << >>
  /\ pendingLoad' = << >>
  /\ pendingLoad[1].item # << >>

\* C19: saving the history and loading it back is a round trip: the storage
\* holds what saveSessionHistory made of the array it was given, and every
\* session that loadSessionHistory reads equals the session of that array,
\* startTime and endTime to the millisecond, an absent endTime absent, the
\* counters and surahsCompleted unchanged.
C19_SaveLoadRoundTrip ==
  /\ [](storage # << >> => storage = << JSONstringify(written) >>)
  /\ [][ Loads =>
           /\ Len(sessionHistory') = Len(pendingLoad[1].of)
           /\ \A i \in 1..Len(sessionHistory') :
                LET read == sessionHistory'[i]
                    orig == pendingLoad[1].of[i]
                IN  /\ read = orig
                    /\ DOMAIN read = DOMAIN orig
                    /\ getTime(read.startTime) = getTime(orig.startTime)
                    /\ "endTime" \in DOMAIN orig =>
                         getTime(read.endTime) = getTime(orig.endTime) ]_vars

\* a session closed in this run was saved and, the provider mounted again,
\* read back in front of the earlier ones
C19_Witness ==
  /\ mounts = 1
  /\ pendingLoad = << >>
  /\ Len(sessionHistory) = HistoryCap
  /\ getTime(sessionHistory[1].startTime) >= ClockStart
  /\ getTime(sessionHistory[1].endTime) > getTime(sessionHistory[1].startTime)
  /\ sessionHistory[2] = EarlierSession(1)
  /\ sessionHistory = written

\* a step of handleVerseCompleted: a verse-completion event
Completes ==
  sessionStats'.versesRecited = sessionStats.versesRecited + 1

\* C15: every verse-completion event that happens while a session is open
\* adds one to that session's versesRecited (and folds the verse's mistakes
\* and accuracy into it), so that the session endSession archives carries
\* the number of verses completed while it was open.
C15_VerseCompletionCountsInSession ==
  [][ (Completes /\ currentSession # << >>) =>
        /\ currentSession' # << >>
        /\ currentSession'[1].versesRecited = currentSession[1].versesRecited + 1 ]_vars

----------------------------------------------------------------------------
(* Claims about the statistics of ProgressScreen.                           *)

\* the sessions that the statistics of this render are about
Shown ==
  getFilteredSessions(sessionHistory, selectedPeriod, now)

\* a session of the list begun on day d after the epoch
StartedOn(sessions, d) ==
  \E i \in 1..Len(sessions) : getTime(sessions[i].startTime) \div MsPerDay = d

\* the number of days in a row, back from today, on which a session of the
\* list was begun
DaysInARow(sessions) ==
  LET today == now \div MsPerDay
  IN  CHOOSE k \in 0..Len(sessions) :
        /\ \A j \in 0..(k - 1) : StartedOn(sessions, today - j)
        /\ ~StartedOn(sessions, today - k)

\* C16: getStats over an empty (filtered) list of sessions returns
\* totalSessions, totalTime, totalVerses, averageAccuracy, totalMistakes and
\* totalPauses all 0 and streakDays 0, with no division by zero (no NaN).
C16_EmptyStatsAreZero ==
  (stats # << >> /\ Shown = << >>) =>
    /\ stats[1].totalSessions = 0
    /\ stats[1].totalTime = 0
    /\ stats[1].totalVerses = 0
    /\ stats[1].averageAccuracy = Zero
    /\ stats[1].totalMistakes = 0
    /\ stats[1].totalPauses = 0
    /\ stats[1].streakDays = 0

\* the history has a session, but none within the week shown
C16_Witness ==
  /\ stats # << >>
  /\ sessionHistory = << OldSession >>
  /\ selectedPeriod = "week"
  /\ Shown = << >>
  /\ stats[1] = ZeroStats

\* C17: streakDays is the number of calendar days in a row, counted back
\* from today, on each of which a session (of those the statistics are
\* about) was begun, ending at the first day without one: 0 when no session
\* was begun today, a day with several sessions counting once.
C17_StreakIsDaysInARow ==
  stats # << >> =>
    /\ stats[1].streakDays = DaysInARow(Shown)
    /\ ~StartedOn(Shown, now \div MsPerDay) => stats[1].streakDays = 0

\* two sessions on each of today and the two days before, none on the day
\* before those, one on the day before that: a streak of 3
C17_Witness ==
  /\ stats # << >>
  /\ stats[1].streakDays = 3
  /\ stats[1].totalSessions = 8
  /\ StartedOn(Shown, Today - 4)
  /\ StartedOn(Shown, Today + 1)

\* C18: getAchievements returns exactly the achievements whose threshold
\* holds, in the declared order: First Session iff totalSessions >= 1,
\* Dedicated Learner iff totalSessions >= 10, Verse Master iff
\* totalVerses >= 100, Week Warrior iff streakDays >= 7, Accuracy Expert iff
\* the arithmetic mean of the sessions' averageAccuracy is >= 90.
C18_AchievementsFollowThresholds ==
  achievements # << >> =>
    LET st == getStats(sessionHistory, selectedPeriod, now)
    IN  achievements[1] =
          (IF st.totalSessions >= 1 THEN << "First Session" >> ELSE << >>)
            \o (IF st.totalSessions >= 10 THEN << "Dedicated Learner" >> ELSE << >>)
            \o (IF st.totalVerses >= 100 THEN << "Verse Master" >> ELSE << >>)
            \o (IF st.streakDays >= 7 THEN << "Week Warrior" >> ELSE << >>)
            \o (IF Shown # << >>
                   /\ Sum(Shown, "averageAccuracy") >= 90 * Len(Shown)
                  THEN << "Accuracy Expert" >> ELSE << >>)

----------------------------------------------------------------------------
(* C21: validateRecitation, position by position                            *)

\* the indices (1-based) of the mistakes reported at the 0-based position i
MistakesAt(mistakes, i) ==
  { j \in 1..Len(mistakes) : mistakes[j].position = i }

\* C21: validation is positional: for every index i below both the canonical
\* and the recited word count there is a pronunciation mistake at position i
\* exactly when the similarity of the i-th canonical and the i-th recited
\* word is below 0.7, of severity high when it is below 0.3 and medium
\* otherwise, whatever the words at the other positions; no position has
\* two mistakes, and the mistakes are listed by increasing position.
C21_PositionalValidation ==
  [][ (Returns /\ Present) =>
        LET rw == RecitedWords(recitedText)
            m  == Ret'.mistakes
        IN  /\ \A i \in 0..(Min(Len(Canon), Len(rw)) - 1) :
                 LET sim == calculateSimilarity(Canon[i + 1], rw[i + 1])
                 IN  /\ Cardinality(MistakesAt(m, i)) <= 1
                     /\ MistakesAt(m, i) # { } <=> FracLt(sim, Threshold70)
                     /\ \A j \in MistakesAt(m, i) :
                          /\ m[j].type = "pronunciation"
                          /\ m[j].expected = Canon[i + 1]
                          /\ m[j].recited = rw[i + 1]
                          /\ m[j].severity =
                               IF FracLt(sim, Threshold30) THEN "high" ELSE "medium"
            /\ \A j \in 1..(Len(m) - 1) : m[j].position < m[j + 1].position ]_vars

\* a recitation with a word of similarity 0 and, after correct words, one of
\* a similarity between 0.3 and 0.7
C21_Witness ==
  /\ result # << >>
  /\ Present
  /\ Len(Ret.mistakes) = 2
  /\ Ret.mistakes[1].type = "pronunciation"
  /\ Ret.mistakes[1].severity = "high"
  /\ Ret.mistakes[2].type = "pronunciation"
  /\ Ret.mistakes[2].severity = "medium"
  /\ Ret.mistakes[2].position > Ret.mistakes[1].position + 1

----------------------------------------------------------------------------
(* C22: the statistics of the selected window                               *)

\* the instant the given number of days before now
DaysBeforeNow(days) ==
  ((now \div MsPerDay) - days) * MsPerDay + (now % MsPerDay)

\* the indices of the sessions of sessionHistory begun within the selected
\* window of now: not before the instant 7 (week) or 30 (month) days ago
InWindow ==
  { i \in 1..Len(sessionHistory) :
      \/ selectedPeriod = "all"
      \/ /\ selectedPeriod = "week"
         /\ getTime(sessionHistory[i].startTime) >= DaysBeforeNow(7)
      \/ /\ selectedPeriod = "month"
         /\ getTime(sessionHistory[i].startTime) >= DaysBeforeNow(30) }

RECURSIVE Total(_, _)
\* the sum of a field over the sessions of sessionHistory at the indices
Total(indices, field) ==
  IF indices = { } THEN 0
  ELSE LET i == CHOOSE i \in indices : TRUE
       IN  sessionHistory[i][field] + Total(indices \ { i }, field)

\* the totals are the sums over exactly the sessions of the window
TotalsOfWindow ==
  /\ stats[1].totalSessions = Cardinality(InWindow)
  /\ stats[1].totalTime = Total(InWindow, "totalDuration")
  /\ stats[1].totalVerses = Total(InWindow, "versesRecited")
  /\ stats[1].totalMistakes = Total(InWindow, "mistakesDetected")
  /\ stats[1].totalPauses = Total(InWindow, "pausesDetected")

\* C22 as claimed: the statistics of the window report averageAccuracy as the
\* arithmetic mean of the averageAccuracy of the sessions of the window,
\* with no other adjustment, and the totals as the sums over exactly the
\* sessions begun within the selected window of now.
C22_AverageIsExactMean ==
  (stats # << >> /\ InWindow # { }) =>
    /\ FracEq(stats[1].averageAccuracy,
              Frac(Total(InWindow, "averageAccuracy"), Cardinality(InWindow)))
    /\ TotalsOfWindow

\* C22 as amended: averageAccuracy is that arithmetic mean rounded to the
\* nearest integer, halves going up; the totals are the sums over exactly
\* the sessions begun within the selected window of now.
C22_AverageIsRoundedMean ==
  (stats # << >> /\ InWindow # { }) =>
    LET sum == Total(InWindow, "averageAccuracy")
        n   == Cardinality(InWindow)
        avg == stats[1].averageAccuracy
    IN  /\ avg[2] = 1
        /\ 2 * avg[1] * n - n <= 2 * sum
        /\ 2 * sum < 2 * avg[1] * n + n
        /\ TotalsOfWindow

\* a week's window that leaves out a session of the history, over sessions
\* whose mean accuracy of 89.5 is reported as 90
C22_Witness ==
  /\ stats # << >>
  /\ selectedPeriod = "week"
  /\ InWindow # { }
  /\ Cardinality(InWindow) < Len(sessionHistory)
  /\ 2 * Total(InWindow, "averageAccuracy") = 179 * Cardinality(InWindow)
  /\ stats[1].averageAccuracy = Frac(90, 1)
  /\ stats[1].totalVerses = Total(InWindow, "versesRecited")

----------------------------------------------------------------------------
(* C23, C24, C29: the frame of the provider's functions                     *)

\* C23: endSession and updateSession called when no session is open do
\* nothing: currentSession stays null, sessionHistory is unchanged and
\* nothing is written to the storage.
C23_NoOpenSessionNoEffect ==
  [][ ((EndSession \/ UpdateSession) /\ currentSession = << >>) =>
        /\ currentSession' = << >>
        /\ sessionHistory' = sessionHistory
        /\ storage' = storage ]_vars

\* one call was made, with no session open, over the loaded history of an
\* earlier run: the history and the storage are as they were
C23_Witness ==
  /\ calls = 1
  /\ mounts = 0
  /\ pendingLoad = << >>
  /\ currentSession = << >>
  /\ sessionHistory = EarlierHistory(HistoryCap)
  /\ storage = << JSONstringify(EarlierHistory(HistoryCap)) >>

C29_StorageAgreesWithMemory ==
  pendingLoad = << >> =>
    \/ storage = << >> /\ sessionHistory = << >>
    \/ storage # << >> /\ HistoryWithDates(JSONparse(storage[1])) = sessionHistory

----------------------------------------------------------------------------
(* C25: the settings                                                        *)

\* C25: from the default settings on, whatever buttons are pressed, the two
\* sensitivities stay integers from 1 to 10, a press changes no setting but
\* its own and that by at most 1, and updateSettings leaves every key that
\* is not in the update as it was.
C25_SensitivitiesStayInRange ==
  /\ [](\A key \in Sensitivities : settings[key] \in SensitivityMin..SensitivityMax)
  /\ [][ /\ DOMAIN settings' = DOMAIN settings
         /\ \A key \in DOMAIN settings :
              settings'[key] # settings[key] =>
                /\ \A other \in DOMAIN settings \ { key } :
                     settings'[other] = settings[other]
                /\ key \in Sensitivities =>
                     settings'[key] - settings[key] \in { -1, 1 } ]_vars

\* the plus button pressed up to the greatest value, the minus button down
\* to the least, and a switch flipped
C25_Witness ==
  /\ settings.pauseDetectionSensitivity = SensitivityMax
  /\ settings.mistakeDetectionSensitivity = SensitivityMin
  /\ ~settings.wakeWordEnabled
  /\ settings.language = "ar"
  /\ settingsStorage = << JSONstringifySettings(settings) >>

----------------------------------------------------------------------------
(* C30: navigation                                                          *)

\* the step in which getNextVerse or getPreviousVerse returns
Navigates ==
  navigated = << >> /\ navigated' # << >>

\* C30: for a chapter s known to the corpus and 1 <= v <= totalVerses(s),
\* getNextVerse returns (s, v + 1) when v < totalVerses(s), otherwise verse
\* 1 of the following chapter, or null after the last chapter; every
\* reference it returns names a chapter known to the corpus; on an unknown
\* chapter it returns null, and so does getPreviousVerse(1, 1).
C30_NavigationStaysInCorpus ==
  [][ Navigates =>
        LET s   == surahNumber
            v   == verseNumber
            ret == navigated'[1]
        IN  /\ (op = "getNextVerse" /\ s \in DOMAIN surahs
                   /\ v >= 1 /\ v <= surahs[s].totalVerses) =>
                 /\ v < surahs[s].totalVerses =>
                      ret = << [ surah |-> s, verse |-> v + 1 ] >>
                 /\ v = surahs[s].totalVerses =>
                      ret \in { << >>, << [ surah |-> s + 1, verse |-> 1 ] >> }
                 /\ ret # << >> => ret[1].surah \in DOMAIN surahs
            /\ (op = "getNextVerse" /\ s \notin DOMAIN surahs) => ret = << >>
            /\ (op = "getPreviousVerse" /\ s = 1 /\ v = 1) => ret = << >> ]_vars

----------------------------------------------------------------------------
(* C28: the verse in focus during a recording                               *)

\* C28: during one recording, each verse-completion event adds one to
\* versesRecited and moves the verse in focus (currentSurah, currentAyah) to
\* getNextVerse of the verse in focus at the time of that event (the focus
\* stays where there is no next verse), so that k consecutive completions
\* leave the focus k verses further along.
C28_CompletionAdvancesFocus ==
  [][ Completes =>
        LET nextVerse == getNextVerse(surahs, currentSurah, currentAyah)
        IN  IF nextVerse # << >>
              THEN /\ currentSurah' = nextVerse[1].surah
                   /\ currentAyah' = nextVerse[1].verse
              ELSE /\ currentSurah' = currentSurah
                   /\ currentAyah' = currentAyah ]_vars

----------------------------------------------------------------------------
(* C26, C27: the polling timers and the audio state of BikeModeScreen       *)

\* a step in which a call of stopRecording gets past its
\* stopContinuousProcessing()
StopCompletes ==
  \/ PressStop /\ ~isRecording
  \/ AudioStopped

\* C26: at most one polling timer is running at any time, under every
\* interleaving of Start presses, wake-word detections and Stop presses, and
\* once stopRecording has completed no polling timer is running (so that no
\* event of a polling period is counted twice).
C26_AtMostOneTimer ==
  /\ [](Len(Timers) <= 1)
  /\ [][ StopCompletes => Timers' = << >> ]_vars

\* C27: whenever the calls of startRecording and stopRecording have all run
\* to completion, in any interleaving, the status agrees with the audio
\* state: status 'idle' implies that AudioService is not recording and that
\* no polling timer is running.
C27_IdleMeansNothingRuns ==
  (starting = << >> /\ stopping = 0 /\ recitationStatus = "idle") =>
    (~isRecording /\ Timers = << >>)
====
